---- MODULE Spec2Model ----
(***************************************************************************)
(* Reverse-mode automatic differentiation (the Gradient pass) of Relax, as *)
(* described by AD_Draft.md: the reverse walk over the bindings of a       *)
(* single dataflow block, the two adjoint maps, the tuple-aware addition   *)
(* and the emission of the adjoint bindings.                               *)
(***************************************************************************)
EXTENDS Integers, Sequences, FiniteSets, TLC

(***************************************************************************)
(* Bounds of the model.                                                    *)
(***************************************************************************)
\* number of bindings of the exhaustively enumerated input functions
MaxBindings == 2

\* largest length of a padding given to GetCompletePadding2D
MaxPaddingLen == 5

\* largest value of an element of a padding
MaxPrimExpr == 2

\* largest number of arguments of a call given to LegalizeMutator
MaxArgs == 2

\* largest number of bindings of a function given to ShapeLowerMutator
MaxShapeBindings == 2

(***************************************************************************)
(* Relax expressions.  Every expression is a record of the same four       *)
(* fields, so that expressions can be compared structurally.               *)
(***************************************************************************)
Var(n) == [kind |-> "Var", name |-> n, args |-> <<>>, index |-> 0]

ShapeExpr(s) == [kind |-> "ShapeExpr", name |-> s, args |-> <<>>, index |-> 0]

Call(op, as) == [kind |-> "Call", name |-> op, args |-> as, index |-> 0]

Tuple(fs) == [kind |-> "Tuple", name |-> "", args |-> fs, index |-> 0]

TupleGetItem(e, i) == [kind |-> "TupleGetItem", name |-> "", args |-> <<e>>, index |-> i]

IsVar(e) == e.kind = "Var"

IsTuple(e) == e.kind = "Tuple"

IsCall(e) == e.kind = "Call"

IsTupleGetItem(e) == e.kind = "TupleGetItem"

(***************************************************************************)
(* Structural information of a variable: a tensor of a shape, or a tuple.  *)
(* The shape "s" is the scalar shape (), "m" is a matrix shape (5, 5).     *)
(***************************************************************************)
TensorStructInfo(s) == [tup |-> FALSE, shape |-> s, dtype |-> "float32", fields |-> <<>>]

IntTensorStructInfo(s) == [tup |-> FALSE, shape |-> s, dtype |-> "int32", fields |-> <<>>]

TupleStructInfo(fs) == [tup |-> TRUE, shape |-> "", dtype |-> "", fields |-> fs]

Scalar == TensorStructInfo("s")

Matrix == TensorStructInfo("m")

\* a finite map extended or overwritten at one key (Map::Set)
MapSet(f, k, v) == [z \in (DOMAIN f) \cup {k} |-> IF z = k THEN v ELSE f[z]]

EmptyMap == [z \in {} |-> z]

\* the broadcast of two tensor shapes
BroadcastShape(s1, s2) == IF s1 = "m" \/ s2 = "m" THEN "m" ELSE "s"

(***************************************************************************)
(* Structural information of the value of a binding, given that of the     *)
(* variables defined so far.                                               *)
(***************************************************************************)
RECURSIVE InferStructInfo(_, _)
InferStructInfo(e, env) ==
  CASE IsVar(e) -> env[e.name]
    [] IsTuple(e) -> TupleStructInfo([i \in 1..Len(e.args) |-> InferStructInfo(e.args[i], env)])
    [] IsTupleGetItem(e) -> InferStructInfo(e.args[1], env).fields[e.index + 1]
    [] IsCall(e) /\ e.name = "relax.sum" -> Scalar
    [] IsCall(e) /\ e.name \in {"relax.add", "relax.sub"} ->
         TensorStructInfo(BroadcastShape(env[e.args[1].name].shape, env[e.args[2].name].shape))

\* the variables an expression refers to
RECURSIVE FreeVars(_)
FreeVars(e) ==
  IF IsVar(e) THEN {e.name}
  ELSE UNION {FreeVars(e.args[i]) : i \in 1..Len(e.args)}

(***************************************************************************)
(* Input functions.  A function is its name, its parameters, the number of *)
(* dataflow blocks of its body, the bindings of its dataflow block, the    *)
(* variable it returns and the structural information of all its           *)
(* variables.                                                              *)
(***************************************************************************)
VarBinding(v, e) == [var |-> v, value |-> e]

RECURSIVE StructInfoOf(_, _)
StructInfoOf(body, env) ==
  IF body = <<>> THEN env
  ELSE StructInfoOf(Tail(body),
                    MapSet(env, Head(body).var, InferStructInfo(Head(body).value, env)))

Function(params, psinfo, body, ret) ==
  [name |-> "main", params |-> params, blocks |-> 1, body |-> body, ret |-> Var(ret),
   sinfo |-> StructInfoOf(body, psinfo)]

\* a registry in which relax.sub has a gradient too
gradient_map_with_sub == {"relax.add", "relax.sum", "relax.sub"}

\* the operators that have a gradient registered (FPrimalGradient)
gradient_map == {"relax.add", "relax.sum"}

XY == ("x" :> Matrix) @@ ("y" :> Matrix)

\* E.g. 1.1
Eg11 ==
  Function(<<"x", "y">>, XY,
    <<VarBinding("lv0", Call("relax.add", <<Var("x"), Var("y")>>)),
      VarBinding("gv0", Call("relax.sum", <<Var("lv0")>>))>>, "gv0")

\* E.g. 1.2: lv1 and lv2 do not contribute to gv0
Eg12 ==
  Function(<<"x", "y">>, XY,
    <<VarBinding("lv0", Call("relax.add", <<Var("x"), Var("y")>>)),
      VarBinding("lv1", Call("relax.sub", <<Var("x"), Var("y")>>)),
      VarBinding("lv2", Call("relax.sum", <<Var("lv1")>>)),
      VarBinding("gv0", Call("relax.sum", <<Var("lv0")>>))>>, "gv0")

\* the example of the Q&A section "Expr and Var"
EgExprVar ==
  Function(<<"x">>, ("x" :> Matrix),
    <<VarBinding("lv1", Var("x")),
      VarBinding("lv2", Call("relax.add", <<Var("lv1"), Var("x")>>)),
      VarBinding("lv3", Call("relax.add", <<Var("lv2"), Var("lv1")>>)),
      VarBinding("lv4", Call("relax.sum", <<Var("lv3")>>))>>, "lv4")

\* tuple definition followed by TupleGetItem of both fields
EgTuple ==
  Function(<<"a", "b">>, ("a" :> Matrix) @@ ("b" :> Matrix),
    <<VarBinding("t", Tuple(<<Var("a"), Var("b")>>)),
      VarBinding("u", TupleGetItem(Var("t"), 0)),
      VarBinding("v", TupleGetItem(Var("t"), 1)),
      VarBinding("s", Call("relax.add", <<Var("u"), Var("v")>>)),
      VarBinding("g", Call("relax.sum", <<Var("s")>>))>>, "g")

\* partial update of a tuple parameter
EgPartial ==
  Function(<<"t">>, ("t" :> TupleStructInfo(<<Matrix, Matrix, Scalar>>)),
    <<VarBinding("u", TupleGetItem(Var("t"), 0)),
      VarBinding("g", Call("relax.sum", <<Var("u")>>))>>, "g")

\* E.g. 3.2: assignment of a tuple parameter
Eg32 ==
  Function(<<"x">>, ("x" :> TupleStructInfo(<<Matrix, Matrix>>)),
    <<VarBinding("lv0", Var("x")),
      VarBinding("lv1", TupleGetItem(Var("lv0"), 1)),
      VarBinding("gv0", Call("relax.sum", <<Var("lv1")>>))>>, "gv0")

\* a tuple whose first field is a tuple-typed variable
EgTupleField ==
  Function(<<"t", "x">>, ("t" :> TupleStructInfo(<<Matrix, Matrix>>)) @@ ("x" :> Matrix),
    <<VarBinding("e", Tuple(<<Var("t"), Var("x")>>)),
      VarBinding("u", TupleGetItem(Var("e"), 0)),
      VarBinding("w", TupleGetItem(Var("u"), 0)),
      VarBinding("g", Call("relax.sum", <<Var("w")>>))>>, "g")

\* a nested tuple definition c = ((x, y), (x,))
EgNestedDef ==
  Function(<<"x", "y">>, XY,
    <<VarBinding("c", Tuple(<<Tuple(<<Var("x"), Var("y")>>), Tuple(<<Var("x")>>)>>)),
      VarBinding("p", TupleGetItem(Var("c"), 0)),
      VarBinding("q", TupleGetItem(Var("p"), 1)),
      VarBinding("g", Call("relax.sum", <<Var("q")>>))>>, "g")

\* a parameter of nested tuple type
EgNestedParam ==
  Function(<<"t", "x">>,
    ("t" :> TupleStructInfo(<<TupleStructInfo(<<Matrix, Scalar>>), Matrix>>)) @@ ("x" :> Scalar),
    <<VarBinding("u", TupleGetItem(Var("t"), 0)),
      VarBinding("w", TupleGetItem(Var("u"), 1)),
      VarBinding("k", TupleGetItem(Var("u"), 1)),
      VarBinding("s", Call("relax.add", <<Var("w"), Var("k")>>)),
      VarBinding("g", Call("relax.add", <<Var("s"), Var("x")>>))>>, "g")

\* the target is not the last binding; a relevant use of relax.sub
EgSub ==
  Function(<<"x", "y">>, XY,
    <<VarBinding("lv0", Call("relax.sub", <<Var("x"), Var("y")>>)),
      VarBinding("gv0", Call("relax.sum", <<Var("lv0")>>)),
      VarBinding("lv1", Call("relax.add", <<Var("gv0"), Var("x")>>))>>, "gv0")

\* a tuple whose first field is a variable bound to a tuple definition
EgTupleOfTuple ==
  Function(<<"a", "b">>, ("a" :> Matrix) @@ ("b" :> Matrix),
    <<VarBinding("c", Tuple(<<Var("a"), Var("b")>>)),
      VarBinding("e", Tuple(<<Var("c"), Var("a")>>)),
      VarBinding("u", TupleGetItem(Var("e"), 0)),
      VarBinding("w", TupleGetItem(Var("u"), 0)),
      VarBinding("g", Call("relax.sum", <<Var("w")>>))>>, "g")

\* a tuple parameter that is projected and is a field of a tuple definition
EgTupleBoth ==
  Function(<<"t", "x">>, ("t" :> TupleStructInfo(<<Matrix, Matrix>>)) @@ ("x" :> Matrix),
    <<VarBinding("e", Tuple(<<Var("t"), Var("x")>>)),
      VarBinding("u", TupleGetItem(Var("t"), 0)),
      VarBinding("p", TupleGetItem(Var("e"), 1)),
      VarBinding("s", Call("relax.add", <<Var("u"), Var("p")>>)),
      VarBinding("g", Call("relax.sum", <<Var("s")>>))>>, "g")

\* relax.sub on a path to the return value and off the paths
EgSubBoth ==
  Function(<<"x", "y">>, XY,
    <<VarBinding("lv0", Call("relax.sub", <<Var("x"), Var("y")>>)),
      VarBinding("lv1", Call("relax.sub", <<Var("y"), Var("x")>>)),
      VarBinding("gv0", Call("relax.sum", <<Var("lv0")>>))>>, "gv0")

\* a body of two dataflow blocks
EgTwoBlocks == [Eg11 EXCEPT !.blocks = 2]

\* the return value is a matrix
EgMatrixReturn ==
  Function(<<"x", "y">>, XY,
    <<VarBinding("lv0", Call("relax.add", <<Var("x"), Var("y")>>))>>, "lv0")

\* two dataflow blocks and a return value that is a matrix
EgTwoBlocksMatrix == [EgMatrixReturn EXCEPT !.blocks = 2]

\* the return value is a scalar of integers
EgIntReturn ==
  Function(<<"x", "k">>, ("x" :> Matrix) @@ ("k" :> IntTensorStructInfo("s")), <<>>, "k")

\* a parameter of integers that the return value does not depend on
EgIntParam ==
  Function(<<"x", "k">>, ("x" :> Matrix) @@ ("k" :> IntTensorStructInfo("m")),
    <<VarBinding("g", Call("relax.sum", <<Var("x")>>))>>, "g")

\* the return value is a field of a tuple parameter
EgProjReturn ==
  Function(<<"t", "x">>, ("t" :> TupleStructInfo(<<Scalar, Matrix>>)) @@ ("x" :> Matrix),
    <<VarBinding("g", TupleGetItem(Var("t"), 0))>>, "g")

\* the inputs that violate a requirement of the pass
Unsupported == {EgTwoBlocks, EgMatrixReturn, EgTwoBlocksMatrix, EgIntReturn}

Examples ==
  {Eg11, Eg12, EgExprVar, EgTuple, EgPartial, Eg32, EgTupleField, EgNestedDef,
   EgNestedParam, EgSub, EgTupleOfTuple, EgTupleBoth, EgSubBoth, EgProjReturn}

(***************************************************************************)
(* All functions of at most MaxBindings bindings over the parameters       *)
(* x, y (tensors) and t (a tuple of two tensors) that return the scalar    *)
(* bound by their last binding.                                            *)
(***************************************************************************)
VarNames == <<"lv0", "lv1", "lv2", "lv3", "lv4">>

GenParams == <<"x", "y", "t">>

GenStructInfo == XY @@ ("t" :> TupleStructInfo(<<Matrix, Matrix>>))

Values(env) ==
  LET tensors == {n \in DOMAIN env : ~env[n].tup}
      tuples == {n \in DOMAIN env : env[n].tup}
  IN  {Var(n) : n \in DOMAIN env}
      \cup {Call(op, <<Var(a), Var(b)>>) : op \in {"relax.add", "relax.sub"}, a \in tensors, b \in tensors}
      \cup {Call("relax.sum", <<Var(a)>>) : a \in tensors}
      \cup {Tuple(<<Var(a), Var(b)>>) : a \in DOMAIN env, b \in DOMAIN env}
      \cup UNION {{TupleGetItem(Var(a), i - 1) : i \in 1..Len(env[a].fields)} : a \in tuples}

\* the bodies of exactly n bindings
RECURSIVE Bodies(_)
Bodies(n) ==
  IF n = 0 THEN {<<>>}
  ELSE UNION {{Append(b, VarBinding(VarNames[n], e)) : e \in Values(StructInfoOf(b, GenStructInfo))} :
                b \in Bodies(n - 1)}

\* a body of less than MaxBindings bindings followed by the binding of a scalar
Generated ==
  UNION {UNION {{Function(GenParams, GenStructInfo,
                          Append(b, VarBinding(VarNames[n], e)), VarNames[n]) :
                   e \in {v \in Values(StructInfoOf(b, GenStructInfo)) :
                            InferStructInfo(v, StructInfoOf(b, GenStructInfo)) = Scalar}} :
                  b \in Bodies(n - 1)} :
           n \in 1..MaxBindings}

Functions == Examples \cup Generated \cup Unsupported \cup {EgIntParam}

(***************************************************************************)
(* The state of one run of the pass.                                       *)
(***************************************************************************)
VARIABLES
  mod,                  \* the module: function name -> function
  global_var,           \* the name of the function to differentiate
  require_grads,        \* the requested parameters, or NoRequire
  first,                \* the input and the result of an earlier call, or <<>>
  pc,                   \* "init", "walk", "done" or "error"
  cursor,               \* index of the next binding of the reverse walk
  adjoint_var_map_,     \* var -> its adjoint var
  adjoint_expr_map_,    \* var -> its adjoint expr
  adjoint_expr_to_var_, \* adjoint expr -> the var bound to it
  out,                  \* the bindings emitted so far
  fresh,                \* number of anonymous variables created
  err                   \* the error kind when pc = "error"

\* the state of the Gradient pass
gradient_vars ==
  <<mod, global_var, require_grads, first, pc, cursor, adjoint_var_map_, adjoint_expr_map_,
    adjoint_expr_to_var_, out, fresh, err>>

(***************************************************************************)
(* The state of the other components: the utilities of op_common.h.        *)
(***************************************************************************)
VARIABLES
  padding,              \* GetCompletePadding2D: the given padding
  completed,            \* GetCompletePadding2D: its outcome
  x1_sinfo,             \* InferBinaryArithOpOutDtype: the first operand
  x2_sinfo,             \* InferBinaryArithOpOutDtype: the second operand
  out_dtype             \* InferBinaryArithOpOutDtype: its outcome

op_vars == <<padding, completed, x1_sinfo, x2_sinfo, out_dtype>>

(***************************************************************************)
(* The state of LegalizeMutator (legalize.cc) while it visits one call.    *)
(***************************************************************************)
VARIABLES
  cmap_,                \* the customize map: Optional<Map<String, PackedFunc>>
  legalize_map,         \* the ops that have the attribute FRelaxLegalize
  visited_call,         \* the call, after its sub-expressions were visited
  legalized,            \* what VisitExpr_ returned
  warned                \* the op names a warning was logged for

legalize_vars == <<cmap_, legalize_map, visited_call, legalized, warned>>

(***************************************************************************)
(* The state of ShapeLowerMutator (shape_lower.cc) while it lowers one     *)
(* function.                                                               *)
(***************************************************************************)
VARIABLES
  mod_,                 \* the function to lower
  visitor,              \* how the visitors of the base classes traverse it
  expr2slot_,           \* Map<PrimExpr, IntImm>: the slot of a dimension
  heap_size_,           \* the size of the shape heap
  ret_mod_              \* what Lower produced

shape_vars == <<mod_, visitor, expr2slot_, heap_size_, ret_mod_>>

\* the state of the components other than the Gradient pass
other_vars == <<op_vars, legalize_vars, shape_vars>>

vars == <<gradient_vars, other_vars>>

\* the outcome of a function that was not called yet
NotCalled == [status |-> "none", value |-> <<>>]

NotInferred == [status |-> "none", value |-> ""]

\* a component that is not exercised
OpIdle ==
  /\ padding = <<>>
  /\ completed = NotCalled
  /\ x1_sinfo = [dtype |-> "void"]
  /\ x2_sinfo = [dtype |-> "void"]
  /\ out_dtype = NotInferred

NotVisited == [status |-> "none", flegalize |-> "", call |-> <<>>]

LegalizeIdle ==
  /\ cmap_ = [defined |-> FALSE, names |-> {}]
  /\ legalize_map = {}
  /\ visited_call = <<>>
  /\ legalized = NotVisited
  /\ warned = {}

NotLowered == [status |-> "none", blocks |-> <<>>, body |-> <<>>, shape_funcs |-> <<>>]

ShapeLowerIdle ==
  /\ mod_ = <<>>
  /\ visitor = <<>>
  /\ expr2slot_ = EmptyMap
  /\ heap_size_ = 0
  /\ ret_mod_ = NotLowered

OthersIdle == OpIdle /\ LegalizeIdle /\ ShapeLowerIdle

GradientIdle ==
  /\ mod = EmptyMap
  /\ global_var = ""
  /\ require_grads = <<>>
  /\ first = <<>>
  /\ pc = "idle"
  /\ cursor = 0
  /\ adjoint_var_map_ = EmptyMap
  /\ adjoint_expr_map_ = EmptyMap
  /\ adjoint_expr_to_var_ = EmptyMap
  /\ out = <<>>
  /\ fresh = 0
  /\ err = ""

NoRequire == <<"*">>

func == mod["main"]

target == func.ret.name

AdjointName(v) == v \o "_adjoint"

FreshName(n) == "grad_" \o ToString(n)

\* the non-empty sub-sequences of a sequence, in the order of the sequence
RECURSIVE SubSeqs(_)
SubSeqs(s) ==
  IF s = <<>> THEN {<<>>}
  ELSE LET rest == SubSeqs(Tail(s))
       IN  rest \cup {<<Head(s)>> \o r : r \in rest}

\* require_grads not given, some of the parameters, or a parameter followed
\* by the returned variable
RequireGradsChoices(f) ==
  {NoRequire} \cup (SubSeqs(f.params) \ {<<>>}) \cup {<<f.params[1], f.ret.name>>}

Init ==
  /\ mod \in {("main" :> f) : f \in Functions}
  /\ global_var \in {"main", "absent"}
  /\ require_grads = NoRequire
  /\ first = <<>>
  /\ pc = "init"
  /\ cursor = 0
  /\ adjoint_var_map_ = EmptyMap
  /\ adjoint_expr_map_ = EmptyMap
  /\ adjoint_expr_to_var_ = EmptyMap
  /\ out = <<>>
  /\ fresh = 0
  /\ err = ""
  /\ OthersIdle

(***************************************************************************)
(* Gradients of the primitive operators: one partial per argument of the   *)
(* original call, built from the adjoint var of the result of the call.    *)
(***************************************************************************)
\* a gradient of sum that does not broadcast
sum_grad_no_broadcast(orig, grad) == <<grad>>

sum_grad(orig, grad) ==
  <<Call("relax.broadcast_to", <<grad, ShapeExpr(func.sinfo[orig.args[1].name].shape)>>)>>

add_grad(orig, grad) ==
  <<Call("relax.collapse_sum_to", <<grad, ShapeExpr(func.sinfo[orig.args[1].name].shape)>>),
    Call("relax.collapse_sum_to", <<grad, ShapeExpr(func.sinfo[orig.args[2].name].shape)>>)>>

gradient(orig, grad) ==
  IF orig.name = "relax.sum" THEN sum_grad(orig, grad) ELSE add_grad(orig, grad)

(***************************************************************************)
(* Tuple-aware addition.                                                   *)
(***************************************************************************)
\* a replacement that never finds the var of an expr
ReplaceNever(expr, e2v) == expr

ReplaceExprByVar(expr, e2v) ==
  IF expr \in DOMAIN e2v THEN Var(e2v[expr]) ELSE expr

RECURSIVE Addition(_, _, _)
Addition(base, increment, e2v) ==
  IF IsTuple(increment)
    THEN Tuple([i \in 1..Len(increment.args) |->
                  Addition(base.args[i], increment.args[i], e2v)])
    ELSE Call("relax.add", <<base, ReplaceExprByVar(increment, e2v)>>)

\* the assertion of Addition: a Tuple increment meets a Tuple base of its length
RECURSIVE AdditionAssert(_, _)
AdditionAssert(base, increment) ==
  IsTuple(increment) =>
    /\ IsTuple(base)
    /\ Len(base.args) = Len(increment.args)
    /\ \A i \in 1..Len(increment.args) : AdditionAssert(base.args[i], increment.args[i])

\* the empty skeleton of the adjoint of a tuple: zeros at every leaf
\* a skeleton that lacks the last field of every tuple
RECURSIVE BuildEmptyOneShort(_)
BuildEmptyOneShort(sinfo) ==
  Tuple([i \in 1..(Len(sinfo.fields) - 1) |->
           IF sinfo.fields[i].tup
             THEN BuildEmptyOneShort(sinfo.fields[i])
             ELSE Call("relax.zeros", <<ShapeExpr(sinfo.fields[i].shape)>>)])

RECURSIVE BuildEmptyNestedTupleExpr(_)
BuildEmptyNestedTupleExpr(sinfo) ==
  Tuple([i \in 1..Len(sinfo.fields) |->
           IF sinfo.fields[i].tup
             THEN BuildEmptyNestedTupleExpr(sinfo.fields[i])
             ELSE Call("relax.zeros", <<ShapeExpr(sinfo.fields[i].shape)>>)])

\* an addition in a tuple that forgets the positions it does not update
AdditionInTupleOnly(tuple, pos, increment, e2v) ==
  Tuple(<<Addition(tuple.args[pos + 1], increment, e2v)>>)

AdditionInTuple(tuple, pos, increment, e2v) ==
  Tuple([i \in 1..Len(tuple.args) |->
           IF i = pos + 1 THEN Addition(tuple.args[i], increment, e2v)
                          ELSE tuple.args[i]])

(***************************************************************************)
(* The mutable state of the pass threaded through one handler: the adjoint *)
(* expr map, the expr-to-var map, the emitted bindings, the counter of     *)
(* anonymous variables, and whether every assertion held so far.           *)
(***************************************************************************)
Store == [expr_map |-> adjoint_expr_map_, expr_to_var |-> adjoint_expr_to_var_,
          out |-> out, fresh |-> fresh, ok |-> TRUE]

\* a BindAndEmit that puts the binding in front of the body
BindAndEmitFront(st, v, e) ==
  [st EXCEPT !.out = <<VarBinding(v, e)>> \o @,
             !.expr_to_var = MapSet(@, e, v)]

BindAndEmit(st, v, e) ==
  [st EXCEPT !.out = Append(@, VarBinding(v, e)),
             !.expr_to_var = MapSet(@, e, v)]

\* the first update of an adjoint: "+=" becomes "=".  As in Addition, an
\* increment that is not a Tuple is used in the form of the var bound to it.
RECURSIVE FirstUpdate(_, _)
FirstUpdate(increment, e2v) ==
  IF IsTuple(increment)
    THEN Tuple([i \in 1..Len(increment.args) |-> FirstUpdate(increment.args[i], e2v)])
    ELSE ReplaceExprByVar(increment, e2v)

\* a "+=" whose first update adds the increment to zeros
PlusAssignOntoZeros(st, v, increment) ==
  IF v \notin DOMAIN st.expr_map
    THEN [st EXCEPT !.expr_map =
            MapSet(@, v, Call("relax.add", <<Call("relax.zeros", <<ShapeExpr(func.sinfo[v].shape)>>),
                                             FirstUpdate(increment, st.expr_to_var)>>))]
    ELSE IF AdditionAssert(st.expr_map[v], increment)
      THEN [st EXCEPT !.expr_map = MapSet(@, v, Addition(st.expr_map[v], increment, st.expr_to_var))]
      ELSE [st EXCEPT !.ok = FALSE]

\* adjoint_expr_map_[v] += increment
PlusAssign(st, v, increment) ==
  IF v \notin DOMAIN st.expr_map
    THEN [st EXCEPT !.expr_map = MapSet(@, v, FirstUpdate(increment, st.expr_to_var))]
    ELSE IF AdditionAssert(st.expr_map[v], increment)
      THEN [st EXCEPT !.expr_map = MapSet(@, v, Addition(st.expr_map[v], increment, st.expr_to_var))]
      ELSE [st EXCEPT !.ok = FALSE]

RECURSIVE UpdateExprMap(_, _, _)
RECURSIVE UpdateExprMapFields(_, _, _, _)
UpdateExprMap(st, base, increment) ==
  IF ~st.ok THEN st
  ELSE IF IsVar(base) THEN
    LET known == increment \in DOMAIN st.expr_to_var
        increment_var == IF known THEN st.expr_to_var[increment] ELSE FreshName(st.fresh)
        st1 == IF known THEN st
               ELSE BindAndEmit([st EXCEPT !.fresh = @ + 1], increment_var, increment)
    IN  PlusAssign(st1, base.name, Var(increment_var))
  ELSE IF IsTuple(base) THEN
    IF IsTuple(increment) /\ Len(increment.args) >= Len(base.args)
      THEN UpdateExprMapFields(st, base, increment, 1)
      ELSE [st EXCEPT !.ok = FALSE]
  ELSE st

\* an update of the fields that takes the increments from the last position on
RECURSIVE UpdateExprMapFieldsReversed(_, _, _, _)
UpdateExprMapFieldsReversed(st, base, increment, i) ==
  IF i > Len(base.args) THEN st
  ELSE UpdateExprMapFieldsReversed(
         UpdateExprMap(st, base.args[i], increment.args[Len(base.args) + 1 - i]),
         base, increment, i + 1)

UpdateExprMapFields(st, base, increment, i) ==
  IF i > Len(base.args) THEN st
  ELSE UpdateExprMapFields(UpdateExprMap(st, base.args[i], increment.args[i]),
                           base, increment, i + 1)

\* adjoint_expr_map_[arg] += partial for the arguments i, i+1, ... of a call
RECURSIVE UpdateArgs(_, _, _, _)
UpdateArgs(st, args, partials, i) ==
  IF i > Len(args) \/ ~st.ok THEN st
  ELSE UpdateArgs(PlusAssign(st, args[i].name, partials[i]), args, partials, i + 1)

(***************************************************************************)
(* The entry of the pass: the forward bindings are kept, the reverse walk  *)
(* starts at the last binding.                                             *)
(***************************************************************************)
\* the requirements of the pass
TargetIsFunction == global_var \in DOMAIN mod

SingleDataflowBlock == func.blocks = 1

ScalarReturn == func.sinfo[target] = Scalar

RECURSIVE HasFloatLeaf(_)
HasFloatLeaf(sinfo) ==
  IF sinfo.tup THEN \E i \in 1..Len(sinfo.fields) : HasFloatLeaf(sinfo.fields[i])
  ELSE sinfo.dtype = "float32"

GoodRequireGrads(rg) ==
  \/ rg = NoRequire
  \/ \A i \in 1..Len(rg) :
       /\ \E k \in 1..Len(func.params) : func.params[k] = rg[i]
       /\ HasFloatLeaf(func.sinfo[rg[i]])

\* a verification that reports a body of several blocks as a bad return
VerifySharedKind(rg) ==
  IF ~TargetIsFunction THEN "NotAFunction"
  ELSE IF ~SingleDataflowBlock THEN "NonScalarReturn"
  ELSE IF ~ScalarReturn THEN "NonScalarReturn"
  ELSE IF ~GoodRequireGrads(rg) THEN "BadRequireGrads"
  ELSE ""

\* the error kind of the first requirement that does not hold, or ""
Verify(rg) ==
  IF ~TargetIsFunction THEN "NotAFunction"
  ELSE IF ~SingleDataflowBlock THEN "UnsupportedBody"
  ELSE IF ~ScalarReturn THEN "NonScalarReturn"
  ELSE IF ~GoodRequireGrads(rg) THEN "BadRequireGrads"
  ELSE ""

Start ==
  /\ pc = "init"
  /\ \E rg \in RequireGradsChoices(func) :
       /\ require_grads' = rg
       /\ IF Verify(rg) = ""
            THEN /\ out' = func.body
                 /\ cursor' = Len(func.body)
                 /\ pc' = "walk"
                 /\ err' = err
            ELSE /\ pc' = "error"
                 /\ err' = Verify(rg)
                 /\ UNCHANGED <<out, cursor>>
  /\ UNCHANGED <<other_vars, mod, global_var, first, adjoint_var_map_, adjoint_expr_map_,
                 adjoint_expr_to_var_, fresh>>

(***************************************************************************)
(* One iteration of the reverse walk (AD-Version 1), by the kind of the    *)
(* value of the binding.                                                   *)
(***************************************************************************)
Cur == func.body[cursor]

Walking == pc = "walk" /\ cursor > 0

\* a walker that takes no binding for irrelevant
IrrelevantNever == FALSE

Irrelevant == Cur.var \notin DOMAIN adjoint_expr_map_ /\ Cur.var # target

adjoint_var == AdjointName(Cur.var)

\* the adjoint expr of the visited binding; the one of the target is ones
adjoint_expr ==
  IF Cur.var \in DOMAIN adjoint_expr_map_
    THEN adjoint_expr_map_[Cur.var]
    ELSE Call("relax.ones", <<ShapeExpr(func.sinfo[Cur.var].shape)>>)

\* the adjoint of the visited binding is recorded but not emitted
NotEmitted == [Store EXCEPT !.expr_map = MapSet(@, Cur.var, adjoint_expr)]

\* the state after the adjoint of the visited binding is bound and emitted
Emitted ==
  BindAndEmit([Store EXCEPT !.expr_map = MapSet(@, Cur.var, adjoint_expr)],
              adjoint_var, adjoint_expr)

\* an end of an iteration that, on failure, leaves the function built so far
\* in the module
CommitPartial(st, kind) ==
  /\ adjoint_var_map_' = MapSet(adjoint_var_map_, Cur.var, adjoint_var)
  /\ IF st.ok
       THEN /\ adjoint_expr_map_' = st.expr_map
            /\ adjoint_expr_to_var_' = st.expr_to_var
            /\ out' = st.out
            /\ fresh' = st.fresh
            /\ cursor' = cursor - 1
            /\ UNCHANGED <<pc, err, mod>>
       ELSE /\ pc' = "error"
            /\ err' = kind
            /\ mod' = mod @@ ("main_adjoint" :> [func EXCEPT !.name = "main_adjoint", !.body = out])
            /\ UNCHANGED <<adjoint_expr_map_, adjoint_expr_to_var_, out, fresh, cursor>>
  /\ UNCHANGED <<other_vars, global_var, require_grads, first>>

\* the end of an iteration: keep the new state, or fail
Commit(st, kind) ==
  /\ adjoint_var_map_' = MapSet(adjoint_var_map_, Cur.var, adjoint_var)
  /\ IF st.ok
       THEN /\ adjoint_expr_map_' = st.expr_map
            /\ adjoint_expr_to_var_' = st.expr_to_var
            /\ out' = st.out
            /\ fresh' = st.fresh
            /\ cursor' = cursor - 1
            /\ UNCHANGED <<pc, err>>
       ELSE /\ pc' = "error"
            /\ err' = kind
            /\ UNCHANGED <<adjoint_expr_map_, adjoint_expr_to_var_, out, fresh, cursor>>
  /\ UNCHANGED <<other_vars, mod, global_var, require_grads, first>>

\* a skip of an irrelevant binding that records no adjoint var for it
VisitIrrelevantNoVar ==
  /\ Walking
  /\ Irrelevant
  /\ cursor' = cursor - 1
  /\ UNCHANGED <<other_vars, mod, global_var, require_grads, first, pc, adjoint_var_map_, adjoint_expr_map_,
                 adjoint_expr_to_var_, out, fresh, err>>

VisitIrrelevant ==
  /\ Walking
  /\ Irrelevant
  /\ adjoint_var_map_' = MapSet(adjoint_var_map_, Cur.var, adjoint_var)
  /\ cursor' = cursor - 1
  /\ UNCHANGED <<other_vars, mod, global_var, require_grads, first, pc, adjoint_expr_map_,
                 adjoint_expr_to_var_, out, fresh, err>>

\* a visit of a Call that passes the adjoint expr to the gradient
VisitCallWithExpr ==
  /\ Walking
  /\ ~Irrelevant
  /\ IsCall(Cur.value)
  /\ IF Cur.value.name \in gradient_map
       THEN Commit(UpdateArgs(Emitted, Cur.value.args,
                              gradient(Cur.value, adjoint_expr), 1),
                   "InternalInvariantViolation")
       ELSE Commit([Emitted EXCEPT !.ok = FALSE], "UnknownGradient")

VisitCall ==
  /\ Walking
  /\ ~Irrelevant
  /\ IsCall(Cur.value)
  /\ IF Cur.value.name \in gradient_map
       THEN Commit(UpdateArgs(Emitted, Cur.value.args,
                              gradient(Cur.value, Var(adjoint_var)), 1),
                   "InternalInvariantViolation")
       ELSE Commit([Emitted EXCEPT !.ok = FALSE], "UnknownGradient")

VisitAssignment ==
  /\ Walking
  /\ ~Irrelevant
  /\ IsVar(Cur.value)
  /\ Commit(PlusAssign(Emitted, Cur.value.name, adjoint_expr), "InternalInvariantViolation")

VisitTuple ==
  /\ Walking
  /\ ~Irrelevant
  /\ IsTuple(Cur.value)
  /\ IF IsTuple(adjoint_expr) /\ Len(Cur.value.args) = Len(adjoint_expr.args)
       THEN Commit(UpdateExprMap(Emitted, Cur.value, adjoint_expr), "InternalInvariantViolation")
       ELSE Commit([Emitted EXCEPT !.ok = FALSE], "InternalInvariantViolation")

VisitTupleGetItem ==
  /\ Walking
  /\ ~Irrelevant
  /\ IsTupleGetItem(Cur.value)
  /\ LET tuple_var == Cur.value.args[1].name
         pos == Cur.value.index
         st1 == IF tuple_var \in DOMAIN Emitted.expr_map THEN Emitted
                ELSE [Emitted EXCEPT !.expr_map =
                        MapSet(@, tuple_var, BuildEmptyNestedTupleExpr(func.sinfo[tuple_var]))]
         base == st1.expr_map[tuple_var]
     IN  IF IsTuple(base) /\ pos < Len(base.args) /\ AdditionAssert(base.args[pos + 1], adjoint_expr)
           THEN Commit([st1 EXCEPT !.expr_map =
                          MapSet(@, tuple_var, AdditionInTuple(base, pos, adjoint_expr, st1.expr_to_var))],
                       "InternalInvariantViolation")
           ELSE Commit([st1 EXCEPT !.ok = FALSE], "InternalInvariantViolation")

(***************************************************************************)
(* The end of the pass: the adjoints of the requested parameters are bound *)
(* and emitted, and the new function is added to the module.               *)
(***************************************************************************)
\* require_grads ignored: the adjoints of all parameters
RequestedAll == func.params

Requested == IF require_grads = NoRequire THEN func.params ELSE require_grads

\* the structural zero of a structural information
zero_skeleton(sinfo) ==
  IF sinfo.tup THEN BuildEmptyNestedTupleExpr(sinfo)
  ELSE Call("relax.zeros", <<ShapeExpr(sinfo.shape)>>)

RECURSIVE EmitParams(_, _, _)
EmitParams(st, ps, i) ==
  IF i > Len(ps) THEN st
  ELSE EmitParams(
         BindAndEmit(st, AdjointName(ps[i]),
                     IF ps[i] \in DOMAIN st.expr_map THEN st.expr_map[ps[i]]
                     ELSE zero_skeleton(func.sinfo[ps[i]])),
         ps, i + 1)

\* an adjoint function that returns the adjoints of all parameters
AdjointFunctionAllParams(body) ==
  [name |-> "main_adjoint", params |-> func.params, blocks |-> 1, body |-> body,
   ret |-> Tuple(<<func.ret, Tuple([i \in 1..Len(func.params) |-> Var(AdjointName(func.params[i]))])>>),
   sinfo |-> func.sinfo]

AdjointFunction(body) ==
  [name |-> "main_adjoint", params |-> func.params, blocks |-> 1, body |-> body,
   ret |-> Tuple(<<func.ret, Tuple([i \in 1..Len(Requested) |-> Var(AdjointName(Requested[i]))])>>),
   sinfo |-> func.sinfo]

Return ==
  /\ pc = "walk"
  /\ cursor = 0
  /\ LET st == EmitParams(Store, Requested, 1)
     IN  /\ out' = st.out
         /\ adjoint_expr_to_var_' = st.expr_to_var
         /\ adjoint_var_map_' =
              [v \in (DOMAIN adjoint_var_map_) \cup {Requested[i] : i \in 1..Len(Requested)} |->
                 AdjointName(v)]
         /\ mod' = mod @@ ("main_adjoint" :> AdjointFunction(st.out))
  /\ pc' = "done"
  /\ UNCHANGED <<other_vars, global_var, require_grads, first, cursor, adjoint_expr_map_, fresh, err>>

Next ==
  \/ Start
  \/ VisitIrrelevant
  \/ VisitCall
  \/ VisitAssignment
  \/ VisitTuple
  \/ VisitTupleGetItem
  \/ Return

Spec == Init /\ [][Next]_vars

(***************************************************************************)
(* A second call of the pass, after a call that returned: on the same      *)
(* function, or on the function without one of its dead bindings.  All the *)
(* state of the pass belongs to one call, so the second call starts from   *)
(* empty maps and from the first anonymous variable.                       *)
(***************************************************************************)
\* a new call that goes on with the anonymous variables of the earlier call
NewPassKeepFresh(f) ==
  [out |-> f.body, cursor |-> Len(f.body), fresh |-> fresh]

\* the state of the pass at the start of the reverse walk of the function f
NewPass(f) ==
  [out |-> f.body, cursor |-> Len(f.body), fresh |-> 0]

\* the bindings whose variable is used by no binding and is not returned
DeadBindings(f) ==
  {i \in 1..Len(f.body) :
     /\ f.body[i].var # f.ret.name
     /\ \A j \in 1..Len(f.body) : f.body[i].var \notin FreeVars(f.body[j].value)}

\* a sequence without its i-th element
Without(seq, i) == SubSeq(seq, 1, i - 1) \o SubSeq(seq, i + 1, Len(seq))

\* the function f without its i-th binding
DeleteBinding(f, i) ==
  [f EXCEPT !.body = Without(f.body, i),
            !.sinfo = [v \in (DOMAIN f.sinfo) \ {f.body[i].var} |-> f.sinfo[v]]]

CallAgain(f) ==
  /\ pc = "done"
  /\ first = <<>>
  /\ first' = [func |-> func, adjoint |-> mod["main_adjoint"]]
  /\ mod' = ("main" :> f)
  /\ out' = NewPass(f).out
  /\ cursor' = NewPass(f).cursor
  /\ fresh' = NewPass(f).fresh
  /\ adjoint_var_map_' = EmptyMap
  /\ adjoint_expr_map_' = EmptyMap
  /\ adjoint_expr_to_var_' = EmptyMap
  /\ pc' = "walk"
  /\ UNCHANGED <<other_vars, global_var, require_grads, err>>

RunAgain == CallAgain(func)

RunWithoutDeadBinding == \E i \in DeadBindings(func) : CallAgain(DeleteBinding(func, i))

NextTwice ==
  \/ Next
  \/ RunAgain
  \/ RunWithoutDeadBinding

SpecTwice == Init /\ [][NextTwice]_vars

(***************************************************************************)
(* Notions used to state the properties of the pass.                       *)
(***************************************************************************)
\* the function the pass has added to the module
adjoint_func == mod["main_adjoint"]

\* the parameters whose adjoints the caller asked for
Wanted == IF require_grads = NoRequire THEN func.params ELSE require_grads

\* the variables the return value depends on, found by one reverse pass
RECURSIVE ReachingVars(_, _)
ReachingVars(i, acc) ==
  IF i = 0 THEN acc
  ELSE ReachingVars(i - 1,
         IF func.body[i].var \in acc THEN acc \cup FreeVars(func.body[i].value) ELSE acc)

Reaching == ReachingVars(Len(func.body), {func.ret.name})

\* the adjoint bindings: what was emitted after the forward bindings
AdjointPart == SubSeq(out, Len(func.body) + 1, Len(out))

\* e is the structural zero of the structural information sinfo
RECURSIVE IsZeroOf(_, _)
IsZeroOf(e, sinfo) ==
  IF sinfo.tup
    THEN /\ IsTuple(e)
         /\ Len(e.args) = Len(sinfo.fields)
         /\ \A i \in 1..Len(e.args) : IsZeroOf(e.args[i], sinfo.fields[i])
    ELSE e = Call("relax.zeros", <<ShapeExpr(sinfo.shape)>>)

(***************************************************************************)
(* C1: the pass leaves the original function unchanged and, when it        *)
(* returns, the module holds in addition the function <name>_adjoint,      *)
(* which returns the pair of the original return value and the tuple of    *)
(* the adjoints of the requested parameters (of all parameters, in         *)
(* declaration order, when require_grads is not given).                    *)
(***************************************************************************)
C1_AdjointFunctionReturned ==
  /\ [][mod'["main"] = mod["main"]]_vars
  /\ [](pc = "done" =>
          /\ DOMAIN mod = {"main", "main_adjoint"}
          /\ adjoint_func.name = func.name \o "_adjoint"
          /\ IsTuple(adjoint_func.ret)
          /\ Len(adjoint_func.ret.args) = 2
          /\ adjoint_func.ret.args[1] = func.ret
          /\ IsTuple(adjoint_func.ret.args[2])
          /\ Len(adjoint_func.ret.args[2].args) = Len(Wanted)
          /\ \A i \in 1..Len(Wanted) :
               /\ adjoint_func.ret.args[2].args[i] = Var(adjoint_var_map_[Wanted[i]])
               /\ \E j \in 1..Len(adjoint_func.body) :
                    adjoint_func.body[j].var = adjoint_var_map_[Wanted[i]])

C1_Witness ==
  /\ pc = "done"
  /\ Len(func.params) = 3
  /\ require_grads = <<"x", "t">>

(***************************************************************************)
(* C2: the emitted body starts with the forward bindings, verbatim and in  *)
(* order, and every adjoint binding comes after the last forward binding.  *)
(***************************************************************************)
C2_ForwardPrefix ==
  (pc \in {"walk", "done"} \/ (pc = "error" /\ Verify(require_grads) = "")) =>
    /\ Len(out) >= Len(func.body)
    /\ SubSeq(out, 1, Len(func.body)) = func.body
    /\ \A i \in (Len(func.body) + 1)..Len(out) : out[i].var \notin DOMAIN func.sinfo
    /\ pc = "done" => adjoint_func.body = out

C2_Witness ==
  /\ pc = "done"
  /\ Len(func.body) >= 3
  /\ Len(adjoint_func.body) >= Len(func.body) + 3

\* the bound variables of the original function
BoundVars == {func.body[i].var : i \in 1..Len(func.body)}

\* the walker is at a binding whose variable has no adjoint expr and is not
\* the target
AtDeadBinding ==
  /\ pc = "walk"
  /\ cursor > 0
  /\ func.body[cursor].var \notin DOMAIN adjoint_expr_map_
  /\ func.body[cursor].var # func.ret.name

\* no adjoint binding of a bound variable that does not reach the return
NoDeadAdjointEmitted ==
  \A i \in 1..Len(AdjointPart) : \A v \in BoundVars :
    AdjointPart[i].var = AdjointName(v) => v \in Reaching

(***************************************************************************)
(* C3 as stated: at a binding whose variable has no adjoint expr the       *)
(* walker allocates no adjoint var, emits nothing and changes no adjoint   *)
(* expr; no adjoint binding is emitted for a variable that does not reach  *)
(* the return value.                                                       *)
(***************************************************************************)
C3_NoAllocation ==
  /\ [][AtDeadBinding =>
          /\ adjoint_var_map_' = adjoint_var_map_
          /\ out' = out
          /\ adjoint_expr_map_' = adjoint_expr_map_]_vars
  /\ []NoDeadAdjointEmitted

(***************************************************************************)
(* C3 amended: at such a binding the walker records an adjoint var for the *)
(* variable in adjoint_var_map_ and then skips the binding: nothing is     *)
(* emitted and no adjoint expr is created or changed; the walker emits no  *)
(* adjoint binding for a bound variable that does not reach the return.    *)
(***************************************************************************)
C3_DeadAdjointRule ==
  /\ [][AtDeadBinding =>
          /\ DOMAIN adjoint_var_map_' = (DOMAIN adjoint_var_map_) \cup {func.body[cursor].var}
          /\ out' = out
          /\ fresh' = fresh
          /\ adjoint_expr_map_' = adjoint_expr_map_
          /\ adjoint_expr_to_var_' = adjoint_expr_to_var_]_vars
  /\ []NoDeadAdjointEmitted

\* the pass has returned after skipping a binding that is used by another
\* skipped binding, as lv1 of E.g. 1.2
C3_Witness ==
  /\ pc = "done"
  /\ \E i, j \in 1..Len(func.body) :
       /\ func.body[i].var \in FreeVars(func.body[j].value)
       /\ func.body[i].var \in (DOMAIN adjoint_var_map_) \ (DOMAIN adjoint_expr_map_)
       /\ func.body[j].var \in (DOMAIN adjoint_var_map_) \ (DOMAIN adjoint_expr_map_)

(***************************************************************************)
(* C4: the adjoint returned for a requested parameter that does not reach  *)
(* the return value (that has no adjoint expr after the walk) is a         *)
(* variable bound in the adjoint part of the body to the structural zero   *)
(* of the structural information of the parameter.                         *)
(***************************************************************************)
C4_ZeroForUnreachedParam ==
  pc = "done" =>
    \A i \in 1..Len(Wanted) :
      (Wanted[i] \notin Reaching \/ Wanted[i] \notin DOMAIN adjoint_expr_map_) =>
        LET a == adjoint_func.ret.args[2].args[i]
        IN  /\ IsVar(a)
            /\ \E j \in (Len(func.body) + 1)..Len(adjoint_func.body) :
                 /\ adjoint_func.body[j].var = a.name
                 /\ IsZeroOf(adjoint_func.body[j].value, func.sinfo[Wanted[i]])

C4_Witness ==
  /\ pc = "done"
  /\ \E i \in 1..Len(Wanted) : Wanted[i] \notin Reaching /\ func.sinfo[Wanted[i]].tup
  /\ \E i \in 1..Len(Wanted) : Wanted[i] \notin Reaching /\ ~func.sinfo[Wanted[i]].tup

\* the variables the value of a set of variables of the output depends on
RECURSIVE NeededVars(_, _)
NeededVars(i, acc) ==
  IF i = 0 THEN acc
  ELSE NeededVars(i - 1, IF out[i].var \in acc THEN acc \cup FreeVars(out[i].value) ELSE acc)

(***************************************************************************)
(* C5: when require_grads is a strict subset of the parameters, the        *)
(* returned tuple holds the adjoints of the requested parameters and of no *)
(* other parameter, and the adjoint of a parameter that was not requested  *)
(* is emitted if and only if a requested adjoint depends on it.            *)
(***************************************************************************)
C5_RequireGradsSubset ==
  (pc = "done" /\ require_grads # NoRequire /\ Len(require_grads) < Len(func.params)) =>
    LET entries == adjoint_func.ret.args[2].args
        needed == NeededVars(Len(out), {entries[i].name : i \in 1..Len(entries)})
    IN  /\ Len(entries) = Len(require_grads)
        /\ \A i \in 1..Len(entries) : entries[i] = Var(AdjointName(require_grads[i]))
        /\ \A k \in 1..Len(func.params) :
             LET q == func.params[k]
             IN  (\A i \in 1..Len(require_grads) : require_grads[i] # q) =>
                   /\ \A i \in 1..Len(entries) : entries[i] # Var(AdjointName(q))
                   /\ (\E j \in 1..Len(out) : out[j].var = AdjointName(q))
                        <=> AdjointName(q) \in needed

\* only x is requested while y has an adjoint expr of its own
C5_Witness ==
  /\ pc = "done"
  /\ require_grads = <<"x">>
  /\ "y" \in DOMAIN adjoint_expr_map_
  /\ "x" \in DOMAIN adjoint_expr_map_

\* the sum of f[i] for i in 1..n
RECURSIVE Sum(_, _)
Sum(f, n) == IF n = 0 THEN 0 ELSE f[n] + Sum(f, n - 1)

\* the number of occurrences of the variable v in the expression e
RECURSIVE Occurrences(_, _)
Occurrences(v, e) ==
  IF IsVar(e) THEN (IF e.name = v THEN 1 ELSE 0)
  ELSE Sum([i \in 1..Len(e.args) |-> Occurrences(v, e.args[i])], Len(e.args))

\* the number of calls of relax.add in the expression e
RECURSIVE CountAdd(_)
CountAdd(e) ==
  (IF IsCall(e) /\ e.name = "relax.add" THEN 1 ELSE 0)
    + Sum([i \in 1..Len(e.args) |-> CountAdd(e.args[i])], Len(e.args))

\* the uses of v in the original function, and those on a path to the return
Uses(v) ==
  Sum([i \in 1..Len(func.body) |-> Occurrences(v, func.body[i].value)], Len(func.body))

RelevantUses(v) ==
  Sum([i \in 1..Len(func.body) |->
         IF func.body[i].var \in Reaching THEN Occurrences(v, func.body[i].value) ELSE 0],
      Len(func.body))

\* the add calls in the emitted adjoint of v (none when it is not emitted)
AddsFor(v) ==
  Sum([i \in 1..Len(AdjointPart) |->
         IF AdjointPart[i].var = AdjointName(v) THEN CountAdd(AdjointPart[i].value) ELSE 0],
      Len(AdjointPart))

HasAdjoint(v) == \E i \in 1..Len(AdjointPart) : AdjointPart[i].var = AdjointName(v)

Max(a, b) == IF a >= b THEN a ELSE b

(***************************************************************************)
(* C6 as stated: for every variable of the original function that has a    *)
(* use, the adjoint body holds max(0, uses - 1) add calls accumulating its  *)
(* adjoint.                                                                *)
(***************************************************************************)
C6_AddsAreUsesMinusOne ==
  pc = "done" =>
    \A v \in DOMAIN func.sinfo : Uses(v) >= 1 => AddsFor(v) = Max(0, Uses(v) - 1)

(***************************************************************************)
(* C6 amended: for every tensor variable of the original function whose    *)
(* adjoint is emitted, the emitted adjoint holds max(0, r - 1) add calls,  *)
(* where r counts the uses of the variable in bindings on a path to the    *)
(* return value.                                                           *)
(***************************************************************************)
C6_AddsAreRelevantUsesMinusOne ==
  \A v \in DOMAIN func.sinfo :
    (HasAdjoint(v) /\ ~func.sinfo[v].tup) => AddsFor(v) = Max(0, RelevantUses(v) - 1)

\* a tensor with three uses on the path to the return has its adjoint emitted
C6_Witness ==
  /\ pc = "done"
  /\ \E v \in DOMAIN func.sinfo :
       HasAdjoint(v) /\ ~func.sinfo[v].tup /\ RelevantUses(v) >= 2 /\ Uses(v) = RelevantUses(v)
  /\ \E v \in DOMAIN func.sinfo :
       HasAdjoint(v) /\ ~func.sinfo[v].tup /\ RelevantUses(v) = 1

\* the value bound to a variable in the adjoint part
AdjointValue(n) ==
  LET i == CHOOSE i \in 1..Len(AdjointPart) : AdjointPart[i].var = n IN AdjointPart[i].value

\* the number of terms of the sum an expression stands for, seen through
\* the adjoint variables bound to an add
RECURSIVE SumTerms(_)
SumTerms(e) ==
  IF IsCall(e) /\ e.name = "relax.add" THEN SumTerms(e.args[1]) + SumTerms(e.args[2])
  ELSE IF /\ IsVar(e)
          /\ \E i \in 1..Len(AdjointPart) : AdjointPart[i].var = e.name
          /\ IsCall(AdjointValue(e.name))
          /\ AdjointValue(e.name).name = "relax.add"
    THEN SumTerms(AdjointValue(e.name))
    ELSE 1

\* the add calls of the expression e
RECURSIVE AddCalls(_)
AddCalls(e) ==
  (IF IsCall(e) /\ e.name = "relax.add" THEN {e} ELSE {})
    \cup UNION {AddCalls(e.args[i]) : i \in 1..Len(e.args)}

TotalAdds == Sum([i \in 1..Len(AdjointPart) |-> CountAdd(AdjointPart[i].value)], Len(AdjointPart))

RelevantUsers(v) ==
  {i \in 1..Len(func.body) : func.body[i].var \in Reaching /\ v \in FreeVars(func.body[i].value)}

\* the position k (from 0) of v is projected by a binding on a path to the return
Projected(v, k) ==
  \E i \in RelevantUsers(v) : func.body[i].value = TupleGetItem(Var(v), k)

(***************************************************************************)
(* C8: the emitted adjoint of a tuple variable that is used on the paths   *)
(* to the return by TupleGetItem bindings only is a Tuple of the arity of  *)
(* the variable whose positions that were never projected hold the         *)
(* structural zero of their structural information.                        *)
(***************************************************************************)
C8_PartialTupleUpdate ==
  \A v \in DOMAIN func.sinfo :
    (/\ HasAdjoint(v)
     /\ func.sinfo[v].tup
     /\ \A i \in RelevantUsers(v) : IsTupleGetItem(func.body[i].value)) =>
      LET e == AdjointValue(AdjointName(v))
      IN  /\ IsTuple(e)
          /\ Len(e.args) = Len(func.sinfo[v].fields)
          /\ \A k \in 1..Len(e.args) :
               ~Projected(v, k - 1) => IsZeroOf(e.args[k], func.sinfo[v].fields[k])

\* a tuple with a projected and an untouched position has its adjoint emitted
C8_Witness ==
  \E v \in DOMAIN func.sinfo :
    /\ HasAdjoint(v)
    /\ func.sinfo[v].tup
    /\ RelevantUsers(v) # {}
    /\ \A i \in RelevantUsers(v) : IsTupleGetItem(func.body[i].value)
    /\ Len(func.sinfo[v].fields) = 3
    /\ Projected(v, 0) /\ ~Projected(v, 1) /\ ~Projected(v, 2)

(***************************************************************************)
(* C9: every variable an emitted binding refers to is a parameter or is    *)
(* bound by an earlier binding of the body, and so is every variable of    *)
(* the returned tuple.                                                     *)
(***************************************************************************)
C9_DefineBeforeUse ==
  LET params == {func.params[i] : i \in 1..Len(func.params)}
  IN  /\ \A i \in 1..Len(out) :
           FreeVars(out[i].value) \subseteq params \cup {out[j].var : j \in 1..(i - 1)}
      /\ pc = "done" =>
           FreeVars(adjoint_func.ret) \subseteq params \cup {out[j].var : j \in 1..Len(out)}

\* an adjoint body with anonymous intermediates and adds has been returned
C9_Witness ==
  /\ pc = "done"
  /\ fresh >= 2
  /\ TotalAdds >= 2
  /\ Len(AdjointPart) >= 6

\* the expression e has the tuple structure of the structural information
RECURSIVE MatchesStructInfo(_, _)
MatchesStructInfo(e, sinfo) ==
  IF sinfo.tup
    THEN /\ IsTuple(e)
         /\ Len(e.args) = Len(sinfo.fields)
         /\ \A i \in 1..Len(e.args) : MatchesStructInfo(e.args[i], sinfo.fields[i])
    ELSE ~IsTuple(e)

(***************************************************************************)
(* C10 (invariant I3): the adjoint expr of every tuple variable is a Tuple *)
(* whose nesting and arity are those of the structural information of the  *)
(* variable.                                                               *)
(***************************************************************************)
C10_TupleAdjointIsTuple ==
  \A v \in DOMAIN adjoint_expr_map_ :
    func.sinfo[v].tup => MatchesStructInfo(adjoint_expr_map_[v], func.sinfo[v])

\* the structural information of an expression that has none: an operator
\* of tensors applied to a tuple
IllTyped == [tup |-> FALSE, shape |-> "ill-typed", dtype |-> "", fields |-> <<>>]

\* the structural information of an expression of the adjoint body
RECURSIVE ExprStructInfo(_, _)
ExprStructInfo(e, env) ==
  CASE IsVar(e) -> IF e.name \in DOMAIN env THEN env[e.name] ELSE IllTyped
    [] IsTuple(e) -> TupleStructInfo([i \in 1..Len(e.args) |-> ExprStructInfo(e.args[i], env)])
    [] IsTupleGetItem(e) ->
         LET t == ExprStructInfo(e.args[1], env)
         IN  IF t.tup /\ e.index < Len(t.fields) THEN t.fields[e.index + 1] ELSE IllTyped
    [] IsCall(e) /\ e.name \in {"relax.ones", "relax.zeros"} -> TensorStructInfo(e.args[1].name)
    [] IsCall(e) /\ e.name \in {"relax.broadcast_to", "relax.collapse_sum_to"} ->
         LET a == ExprStructInfo(e.args[1], env)
         IN  IF a.tup \/ a = IllTyped THEN IllTyped ELSE TensorStructInfo(e.args[2].name)
    [] IsCall(e) /\ e.name = "relax.sum" ->
         LET a == ExprStructInfo(e.args[1], env)
         IN  IF a.tup \/ a = IllTyped THEN IllTyped ELSE Scalar
    [] IsCall(e) /\ e.name \in {"relax.add", "relax.sub"} ->
         LET a == ExprStructInfo(e.args[1], env)
             b == ExprStructInfo(e.args[2], env)
         IN  IF a.tup \/ b.tup \/ a = IllTyped \/ b = IllTyped THEN IllTyped
             ELSE TensorStructInfo(BroadcastShape(a.shape, b.shape))

\* the structural information of the variables bound by the first n emitted
\* bindings, on top of that of the parameters
RECURSIVE OutStructInfo(_)
OutStructInfo(n) ==
  IF n = 0 THEN [p \in {func.params[i] : i \in 1..Len(func.params)} |-> func.sinfo[p]]
  ELSE LET env == OutStructInfo(n - 1)
       IN  MapSet(env, out[n].var, ExprStructInfo(out[n].value, env))

(***************************************************************************)
(* C11: the structural information of every emitted adjoint variable       *)
(* v_adjoint is the structural information of the variable v.              *)
(***************************************************************************)
C11_AdjointStructInfo ==
  \A n \in (Len(func.body) + 1)..Len(out) : \A v \in DOMAIN func.sinfo :
    out[n].var = AdjointName(v) => OutStructInfo(n)[out[n].var] = func.sinfo[v]


\* the error kinds of the requirements that do not hold
Violated ==
  IF ~TargetIsFunction THEN {"NotAFunction"}
  ELSE (IF SingleDataflowBlock THEN {} ELSE {"UnsupportedBody"})
       \cup (IF ScalarReturn THEN {} ELSE {"NonScalarReturn"})
       \cup (IF GoodRequireGrads(require_grads) THEN {} ELSE {"BadRequireGrads"})

(***************************************************************************)
(* C12: a call whose requirements do not all hold fails with the error     *)
(* kind of a requirement that does not hold, which is the kind of the      *)
(* requirement when it is the only one: NotAFunction for a name that is    *)
(* not a function of the module, UnsupportedBody for a body that is not a  *)
(* single dataflow block, NonScalarReturn for a return that is not a       *)
(* scalar of floats, BadRequireGrads for a require_grads entry that is not *)
(* a parameter or has no leaf of floats; a call whose requirements hold    *)
(* fails with none of these kinds.                                         *)
(***************************************************************************)
C12_RequirementErrorKinds ==
  pc # "init" =>
    /\ Violated # {} => (pc = "error" /\ err \in Violated)
    /\ err \in {"NotAFunction", "UnsupportedBody", "NonScalarReturn", "BadRequireGrads"}
         => err \in Violated

\* a requested parameter of integers is refused
C12_Witness ==
  /\ pc = "error"
  /\ err = "BadRequireGrads"
  /\ \E i \in 1..Len(require_grads) :
       require_grads[i] \in DOMAIN func.sinfo /\ ~HasFloatLeaf(func.sinfo[require_grads[i]])

(***************************************************************************)
(* C13: a step that fails leaves the module as it was, and the module of a *)
(* failed call holds the original function only: no function built by the *)
(* pass is in it.                                                          *)
(***************************************************************************)
C13_NoOutputOnError ==
  /\ [][pc' = "error" => mod' = mod]_vars
  /\ [](pc = "error" => DOMAIN mod = {"main"})

\* a failure in the middle of the reverse walk, after bindings were emitted
C13_Witness ==
  /\ pc = "error"
  /\ err \in {"UnknownGradient", "InternalInvariantViolation"}
  /\ cursor < Len(func.body)
  /\ Len(out) > Len(func.body)

\* the walker is at a Call of an operator without a registered gradient
\* whose variable has an adjoint expr (that of the target is ones)
AtUnknownGradient ==
  /\ pc = "walk"
  /\ cursor > 0
  /\ IsCall(func.body[cursor].value)
  /\ func.body[cursor].value.name \notin {"relax.add", "relax.sum"}
  /\ \/ func.body[cursor].var \in DOMAIN adjoint_expr_map_
     \/ func.body[cursor].var = func.ret.name

\* the calls of operators without a registered gradient
UnregisteredCalls ==
  {i \in 1..Len(func.body) :
     IsCall(func.body[i].value) /\ func.body[i].value.name \notin {"relax.add", "relax.sum"}}

(***************************************************************************)
(* C14: a step raises UnknownGradient if and only if the walker is at a    *)
(* Call of an operator without a registered gradient whose variable has an *)
(* adjoint expr; a failed call with UnknownGradient has such a Call on a   *)
(* path to the return value, so that a Call that does not reach the return *)
(* value never makes the pass fail.                                        *)
(***************************************************************************)
C14_UnknownGradientIff ==
  /\ [][(err # "UnknownGradient" /\ err' = "UnknownGradient") <=> AtUnknownGradient]_vars
  /\ [](err = "UnknownGradient" =>
          /\ pc = "error"
          /\ \E i \in UnregisteredCalls : func.body[i].var \in Reaching /\ i = cursor)
  /\ [](pc \in {"walk", "done"} =>
          \A i \in UnregisteredCalls : i > cursor => func.body[i].var \notin Reaching)

\* UnknownGradient is raised after a Call of relax.sub that does not reach
\* the return value was walked over
C14_Witness ==
  /\ pc = "error"
  /\ err = "UnknownGradient"
  /\ \E i \in UnregisteredCalls : i > cursor /\ func.body[i].var \notin Reaching

RECURSIVE Rename(_, _)
Rename(e, rho) ==
  IF IsVar(e) THEN (IF e.name \in DOMAIN rho THEN Var(rho[e.name]) ELSE e)
  ELSE [e EXCEPT !.args = [i \in 1..Len(e.args) |-> Rename(e.args[i], rho)]]

\* the functions f and g are the same up to the names of their bound variables
SameUpToRenaming(f, g) ==
  /\ f.params = g.params
  /\ Len(f.body) = Len(g.body)
  /\ LET rho == [v \in {f.body[i].var : i \in 1..Len(f.body)} |->
                   g.body[CHOOSE i \in 1..Len(f.body) : f.body[i].var = v].var]
     IN  /\ Cardinality({rho[v] : v \in DOMAIN rho}) = Len(f.body)
         /\ \A i \in 1..Len(f.body) : Rename(f.body[i].value, rho) = g.body[i].value
         /\ Rename(f.ret, rho) = g.ret

\* the second call was made on the function without one of its dead bindings
AfterDeadBindingDeleted ==
  /\ pc = "done"
  /\ first # <<>>
  /\ first.func # func

(***************************************************************************)
(* C16 as stated: the pass run on the function without one of its dead     *)
(* bindings returns the adjoint function of the function itself, up to the *)
(* names of the variables.                                                 *)
(***************************************************************************)
C16_SameAdjointFunction ==
  AfterDeadBindingDeleted => SameUpToRenaming(adjoint_func, first.adjoint)

(***************************************************************************)
(* C16 amended: the pass run on the function without one of its dead       *)
(* bindings returns the adjoint function of the function itself without    *)
(* that forward binding: the adjoint bindings and the returned tuple are   *)
(* the same, names included.                                               *)
(***************************************************************************)
C16_SameAdjointBindings ==
  AfterDeadBindingDeleted =>
    /\ adjoint_func.params = first.adjoint.params
    /\ adjoint_func.ret = first.adjoint.ret
    /\ \E i \in DeadBindings(first.func) :
         /\ func = DeleteBinding(first.func, i)
         /\ adjoint_func.body = Without(first.adjoint.body, i)

\* the deleted binding was used by no binding while it used a variable that
\* reaches the return value
C16_Witness ==
  /\ AfterDeadBindingDeleted
  /\ Len(AdjointPart) >= 4
  /\ \E i \in DeadBindings(first.func) :
       /\ func = DeleteBinding(first.func, i)
       /\ FreeVars(first.func.body[i].value) \cap Reaching # {}

(***************************************************************************)
(* C17: for lv0 = add(x, y); gv0 = sum(lv0) with all adjoints requested,   *)
(* the adjoint part of the returned body is exactly gv0_adjoint = ones,    *)
(* lv0_adjoint = broadcast_to(gv0_adjoint), x_adjoint =                    *)
(* collapse_sum_to(lv0_adjoint), y_adjoint = collapse_sum_to(lv0_adjoint), *)
(* in this order: no zeros, no add, no anonymous variable; the function    *)
(* returns (gv0, (x_adjoint, y_adjoint)).                                  *)
(***************************************************************************)
C17_Baseline ==
  (pc = "done" /\ func = Eg11 /\ require_grads = NoRequire) =>
    /\ AdjointPart =
         <<VarBinding("gv0_adjoint", Call("relax.ones", <<ShapeExpr("s")>>)),
           VarBinding("lv0_adjoint",
                      Call("relax.broadcast_to", <<Var("gv0_adjoint"), ShapeExpr("m")>>)),
           VarBinding("x_adjoint",
                      Call("relax.collapse_sum_to", <<Var("lv0_adjoint"), ShapeExpr("m")>>)),
           VarBinding("y_adjoint",
                      Call("relax.collapse_sum_to", <<Var("lv0_adjoint"), ShapeExpr("m")>>))>>
    /\ fresh = 0
    /\ adjoint_func.body = out
    /\ adjoint_func.ret =
         Tuple(<<Var("gv0"), Tuple(<<Var("x_adjoint"), Var("y_adjoint")>>)>>)

C17_Witness ==
  /\ pc = "done"
  /\ func = Eg11
  /\ require_grads = NoRequire
  /\ Len(AdjointPart) = 4

\* the variables bound by the bindings the reverse walker has processed
Processed == {func.body[i].var : i \in (cursor + 1)..Len(func.body)}

(***************************************************************************)
(* C18 (invariant I2): during the reverse walk and after it, a variable    *)
(* bound by a binding has an adjoint var if and only if the walker has     *)
(* processed its binding; an adjoint var is recorded for it by the step    *)
(* that processes its binding and by no other step, and is never changed.  *)
(***************************************************************************)
C18_AdjointVarIffProcessed ==
  /\ [](pc \in {"walk", "done"} => (DOMAIN adjoint_var_map_) \cap BoundVars = Processed)
  /\ [][pc = "walk" =>
          /\ \A v \in DOMAIN adjoint_var_map_ :
               v \in DOMAIN adjoint_var_map_' /\ adjoint_var_map_'[v] = adjoint_var_map_[v]
          /\ \A v \in ((DOMAIN adjoint_var_map_') \ (DOMAIN adjoint_var_map_)) \cap BoundVars :
               cursor > 0 /\ v = func.body[cursor].var]_vars

\* the walker is in the middle of a body, past a binding that it skipped and
\* past one that it did not skip
C18_Witness ==
  /\ pc = "walk"
  /\ cursor > 0
  /\ Processed \ (DOMAIN adjoint_expr_map_) # {}
  /\ Processed \cap (DOMAIN adjoint_expr_map_) # {}

\* the Call expressions in the expression e
RECURSIVE Calls(_)
Calls(e) ==
  (IF IsCall(e) THEN {e} ELSE {})
    \cup UNION {Calls(e.args[i]) : i \in 1..Len(e.args)}

\* a variable or a shape
IsLeaf(e) == e.kind \in {"Var", "ShapeExpr"}

(***************************************************************************)
(* C19 as stated: in every binding emitted by the pass every argument of a *)
(* Call and every field of a Tuple is a variable (or a shape), never a     *)
(* nested computation.                                                     *)
(***************************************************************************)
C19_NormalForm ==
  \A n \in 1..Len(AdjointPart) :
    LET e == AdjointPart[n].value
    IN  (IsCall(e) \/ IsTuple(e)) => \A i \in 1..Len(e.args) : IsLeaf(e.args[i])

(***************************************************************************)
(* C19 amended: in every binding emitted by the pass, the arguments of     *)
(* every Call of an operator other than relax.add are variables and        *)
(* shapes: the gradient of an operator is applied to the adjoint var of    *)
(* the result, never to its adjoint expr.  The operands of an accumulating *)
(* relax.add and the fields of a Tuple may be nested computations.         *)
(***************************************************************************)
C19_GradientOfAdjointVar ==
  \A n \in 1..Len(AdjointPart) : \A c \in Calls(AdjointPart[n].value) :
    c.name # "relax.add" => \A i \in 1..Len(c.args) : IsLeaf(c.args[i])

\* an emitted add has an operand that is the Call of a gradient on an
\* adjoint var, and an emitted Tuple has a field that is an add
C19_Witness ==
  /\ \E n \in 1..Len(AdjointPart) : \E c \in Calls(AdjointPart[n].value) :
       /\ c.name = "relax.add"
       /\ \E i \in 1..2 : IsCall(c.args[i]) /\ c.args[i].name = "relax.collapse_sum_to"
  /\ \E n \in 1..Len(AdjointPart) :
       /\ IsTuple(AdjointPart[n].value)
       /\ \E i \in 1..Len(AdjointPart[n].value.args) : IsCall(AdjointPart[n].value.args[i])

\* the value bound to the variable n by the bindings of body
ValueIn(body, n) ==
  LET i == CHOOSE i \in 1..Len(body) : body[i].var = n IN body[i].value

\* the value of an expression of the adjoint body: the adjoint variables
\* stand for the values bound to them, a projection of a Tuple is its field
\* and the sum of zeros and a value is the value
RECURSIVE Resolve(_, _)
Resolve(e, body) ==
  IF IsVar(e)
    THEN IF \E i \in (Len(func.body) + 1)..Len(body) : body[i].var = e.name
           THEN Resolve(ValueIn(body, e.name), body)
           ELSE e
  ELSE IF IsTupleGetItem(e)
    THEN LET t == Resolve(e.args[1], body)
         IN  IF IsTuple(t) THEN t.args[e.index + 1] ELSE TupleGetItem(t, e.index)
  ELSE LET r == [e EXCEPT !.args = [i \in 1..Len(e.args) |-> Resolve(e.args[i], body)]]
       IN  IF IsCall(r) /\ r.name = "relax.add" /\ IsCall(r.args[1]) /\ r.args[1].name = "relax.zeros"
             THEN r.args[2]
             ELSE r

\* the walker is at a Tuple binding that it does not skip
AtTupleBinding ==
  /\ pc = "walk"
  /\ cursor > 0
  /\ IsTuple(func.body[cursor].value)
  /\ func.body[cursor].var \in DOMAIN adjoint_expr_map_

Returned(v) == [status |-> "returned", value |-> v]

Fatal == [status |-> "fatal", value |-> <<>>]

\* a completion that pairs the elements of a padding of length 2 side by side
GetCompletePadding2DPaired(p) ==
  IF Len(p) = 1 THEN Returned(<<p[1], p[1], p[1], p[1]>>)
  ELSE IF Len(p) = 2 THEN Returned(<<p[1], p[1], p[2], p[2]>>)
  ELSE IF Len(p) = 4 THEN Returned(p)
  ELSE Fatal

GetCompletePadding2D(p) ==
  IF Len(p) = 1 THEN Returned(<<p[1], p[1], p[1], p[1]>>)
  ELSE IF Len(p) = 2 THEN Returned(<<p[1], p[2], p[1], p[2]>>)
  ELSE IF Len(p) = 4 THEN Returned(p)
  ELSE Fatal

\* the paddings of at most MaxPaddingLen elements
Paddings == UNION {[1..n -> 0..MaxPrimExpr] : n \in 0..MaxPaddingLen}

InitPadding ==
  /\ padding \in Paddings
  /\ completed = NotCalled
  /\ x1_sinfo = [dtype |-> "void"]
  /\ x2_sinfo = [dtype |-> "void"]
  /\ out_dtype = NotInferred
  /\ GradientIdle
  /\ LegalizeIdle
  /\ ShapeLowerIdle

CompletePadding ==
  /\ completed = NotCalled
  /\ completed' = GetCompletePadding2D(padding)
  /\ UNCHANGED <<gradient_vars, legalize_vars, shape_vars, padding, x1_sinfo, x2_sinfo, out_dtype>>

NextPadding == CompletePadding

SpecPadding == InitPadding /\ [][NextPadding]_vars

(***************************************************************************)
(* C21: GetCompletePadding2D returns [p, p, p, p] for [p], [a, b, a, b]    *)
(* for [a, b] and a padding of four elements unchanged; what it returns    *)
(* has four elements; for every other length it raises a fatal error and   *)
(* does not return.                                                        *)
(***************************************************************************)
C21_CompletePadding ==
  completed # NotCalled =>
    /\ Len(padding) = 1 =>
         completed = Returned(<<padding[1], padding[1], padding[1], padding[1]>>)
    /\ Len(padding) = 2 =>
         completed = Returned(<<padding[1], padding[2], padding[1], padding[2]>>)
    /\ Len(padding) = 4 => completed = Returned(padding)
    /\ Len(padding) \notin {1, 2, 4} => completed = Fatal
    /\ completed.status = "returned" => Len(completed.value) = 4
    /\ completed.status \in {"returned", "fatal"}

\* a padding of two different elements has been completed
C21_Witness ==
  /\ completed.status = "returned"
  /\ Len(padding) = 2
  /\ padding[1] # padding[2]

(***************************************************************************)
(* op_common.h: InferBinaryArithOpOutDtype.  DataType::Void() is the       *)
(* unknown dtype; ctx->ReportFatal does not return.                        *)
(***************************************************************************)
DataTypes ==
  {"void", "float16", "float32", "float64", "int8", "int32", "int64", "bool"}

IsUnknownDtype(sinfo) == sinfo.dtype = "void"

ReportFatal == [status |-> "fatal", value |-> ""]

\* an inference that compares the dtypes before looking for an unknown one
InferBinaryArithOpOutDtypeCompareFirst(x1, x2) ==
  IF x1.dtype # x2.dtype THEN ReportFatal
  ELSE IF IsUnknownDtype(x1) \/ IsUnknownDtype(x2) THEN Returned("void")
  ELSE Returned(x1.dtype)

InferBinaryArithOpOutDtype(x1, x2) ==
  IF IsUnknownDtype(x1) \/ IsUnknownDtype(x2) THEN Returned("void")
  ELSE IF x1.dtype # x2.dtype THEN ReportFatal
  ELSE Returned(x1.dtype)

InitDtype ==
  /\ x1_sinfo \in [dtype : DataTypes]
  /\ x2_sinfo \in [dtype : DataTypes]
  /\ out_dtype = NotInferred
  /\ padding = <<>>
  /\ completed = NotCalled
  /\ GradientIdle
  /\ LegalizeIdle
  /\ ShapeLowerIdle

InferDtype ==
  /\ out_dtype = NotInferred
  /\ out_dtype' = InferBinaryArithOpOutDtype(x1_sinfo, x2_sinfo)
  /\ UNCHANGED <<gradient_vars, legalize_vars, shape_vars, padding, completed, x1_sinfo, x2_sinfo>>

NextDtype == InferDtype

SpecDtype == InitDtype /\ [][NextDtype]_vars

(***************************************************************************)
(* C24: InferBinaryArithOpOutDtype returns the unknown (void) dtype when   *)
(* the dtype of either operand is unknown, reports a fatal error when both *)
(* are known and differ, and returns the common dtype otherwise; it never  *)
(* reports a mismatch when one of the operands has unknown dtype.          *)
(***************************************************************************)
C24_OutDtype ==
  out_dtype # NotInferred =>
    LET unknown == x1_sinfo.dtype = "void" \/ x2_sinfo.dtype = "void"
    IN  /\ unknown => out_dtype = Returned("void")
        /\ ~unknown /\ x1_sinfo.dtype # x2_sinfo.dtype => out_dtype = ReportFatal
        /\ ~unknown /\ x1_sinfo.dtype = x2_sinfo.dtype =>
             out_dtype = Returned(x1_sinfo.dtype)
        /\ out_dtype = ReportFatal => ~unknown

\* the dtype has been inferred for an operand of unknown dtype and one of
\* known dtype
C24_Witness ==
  /\ out_dtype = Returned("void")
  /\ x1_sinfo.dtype = "void"
  /\ x2_sinfo.dtype = "float32"

(***************************************************************************)
(* legalize.cc: LegalizeMutator::VisitExpr_ for a CallNode.                *)
(*                                                                         *)
(* A call is [op, args, known]: op is the callee, [kind, name]; args holds *)
(* for each argument what KnowAllShapeValues answers for its struct info,  *)
(* and known what it answers for the struct info of the call.  A           *)
(* legalization function is opaque: applying it is recorded by its origin. *)
(***************************************************************************)
OpNames == {"relax.add", "relax.call_tir", "relax.nn.conv2d"}

call_tir_op == "relax.call_tir"

Callees == [kind : {"Op", "GlobalVar"}, name : OpNames]

VisitedCalls ==
  [op : Callees,
   args : UNION {[1..n -> BOOLEAN] : n \in 0..MaxArgs},
   known : BOOLEAN]

CustomizeMaps ==
  {[defined |-> FALSE, names |-> {}]} \cup [defined : {TRUE}, names : SUBSET OpNames]

\* know_all_shape after the arguments from the i-th on were looked at
RECURSIVE KnowAllShapeFrom(_, _, _)
KnowAllShapeFrom(know_all_shape, args, i) ==
  IF i > Len(args) THEN know_all_shape
  ELSE KnowAllShapeFrom(know_all_shape \/ args[i], args, i + 1)

Unchanged(call) == [status |-> "returned", flegalize |-> "", call |-> call]

Legalized(flegalize, call) ==
  [status |-> "returned", flegalize |-> flegalize, call |-> call]

\* a choice of the legalization function that prefers the attribute
FLegalizeBuiltinFirst(cmap, attrs, op) ==
  IF op.name \in attrs THEN "builtin"
  ELSE IF cmap.defined /\ op.name \in cmap.names THEN "customize"
  ELSE ""

\* the function flegalize holds at line 69, "" when has_legalize is false
FLegalize(cmap, attrs, op) ==
  IF cmap.defined /\ op.name \in cmap.names THEN "customize"
  ELSE IF op.name \in attrs THEN "builtin"
  ELSE ""

LegalizeVisitExpr_(cmap, attrs, call) ==
  IF call.op.kind = "Op"
  THEN LET flegalize == FLegalize(cmap, attrs, call.op)
           has_legalize == flegalize # ""
           know_all_shape ==
             KnowAllShapeFrom(TRUE, call.args, 1) \/ call.known
       IN  IF has_legalize /\ know_all_shape
           THEN Legalized(flegalize, call)
           ELSE Unchanged(call)
  ELSE Unchanged(call)

\* the warning of line 62
Warning(attrs, call) ==
  IF call.op.kind = "Op" /\ call.op.name \notin attrs /\ call.op.name # call_tir_op
  THEN {call.op.name}
  ELSE {}

InitLegalize ==
  /\ cmap_ \in CustomizeMaps
  /\ legalize_map \in SUBSET OpNames
  /\ visited_call \in VisitedCalls
  /\ legalized = NotVisited
  /\ warned = {}
  /\ GradientIdle
  /\ OpIdle
  /\ ShapeLowerIdle

Legalize ==
  /\ legalized = NotVisited
  /\ legalized' = LegalizeVisitExpr_(cmap_, legalize_map, visited_call)
  /\ warned' = Warning(legalize_map, visited_call)
  /\ UNCHANGED <<gradient_vars, op_vars, shape_vars, cmap_, legalize_map, visited_call>>

NextLegalize == Legalize

SpecLegalize == InitLegalize /\ [][NextLegalize]_vars

\* the call was to an operator and LegalizeMutator has visited it
VisitedOpCall == legalized # NotVisited /\ visited_call.op.kind = "Op"

HasCustomize == cmap_.defined /\ visited_call.op.name \in cmap_.names

HasBuiltin == visited_call.op.name \in legalize_map

(***************************************************************************)
(* C22: for a call to an operator, a legalization function of the          *)
(* customize map takes priority over the attribute FRelaxLegalize: with    *)
(* both the customized one is applied, with the attribute alone the        *)
(* builtin one, and with neither the visited call is returned unchanged.   *)
(***************************************************************************)
C22_CustomizeFirst ==
  VisitedOpCall =>
    /\ HasCustomize /\ HasBuiltin => legalized = Legalized("customize", visited_call)
    /\ ~HasCustomize /\ HasBuiltin => legalized = Legalized("builtin", visited_call)
    /\ ~HasCustomize /\ ~HasBuiltin => legalized = Unchanged(visited_call)

\* a call to an operator that has both functions was legalized
C22_Witness ==
  /\ VisitedOpCall
  /\ HasCustomize
  /\ HasBuiltin
  /\ legalized.flegalize = "customize"

\* every shape value of the arguments and of the call is known
AllShapeValuesKnown ==
  /\ \A i \in 1..Len(visited_call.args) : visited_call.args[i]
  /\ visited_call.known

(***************************************************************************)
(* C23: LegalizeMutator replaces a call by its legalized expression only   *)
(* when a legalization function is available and all shape values of the   *)
(* struct info of every argument and of the call are known; with an        *)
(* unknown shape value the visited call is returned unlegalized.           *)
(***************************************************************************)
C23_LegalizedOnlyWithKnownShapes ==
  legalized # NotVisited =>
    /\ legalized.flegalize # "" => (HasCustomize \/ HasBuiltin) /\ AllShapeValuesKnown
    /\ ~AllShapeValuesKnown => legalized = Unchanged(visited_call)

\* the expression holds a relax.add whose base is a Tuple: what Addition
\* builds when a Tuple base meets an increment that is not a Tuple
RECURSIVE AddsOntoTuple(_)
AddsOntoTuple(e) ==
  \/ IsCall(e) /\ e.name = "relax.add" /\ IsTuple(e.args[1])
  \/ \E i \in 1..Len(e.args) : AddsOntoTuple(e.args[i])

(***************************************************************************)
(* C25: Addition is never invoked with a Tuple base and an increment that  *)
(* is not a Tuple of the same arity: no adjoint expr holds the relax.add   *)
(* of a Tuple and something else, and no assertion of Addition fails.      *)
(***************************************************************************)
C25_IncrementMatchesBase ==
  /\ \A v \in DOMAIN adjoint_expr_map_ : ~AddsOntoTuple(adjoint_expr_map_[v])
  /\ err # "InternalInvariantViolation"

\* the tuple variable x of the visited binding V = x[k], and k + 1
ProjectedVar == Cur.value.args[1].name

ProjectedPos == Cur.value.index + 1

\* adjoint_expr_map_[x] before the visit: the empty skeleton when absent
OldTupleAdjoint ==
  IF ProjectedVar \in DOMAIN adjoint_expr_map_
    THEN adjoint_expr_map_[ProjectedVar]
    ELSE BuildEmptyNestedTupleExpr(func.sinfo[ProjectedVar])

\* a relevant TupleGetItem binding is visited and no assertion fails
TupleGetItemStep == VisitTupleGetItem /\ pc' = "walk"

\* the visit puts at position k of adjoint_expr_map_[x] the old value plus
\* the adjoint of V, keeps the other positions and the arity, and leaves
\* alone what was emitted before
OnlyPositionK ==
  LET old == OldTupleAdjoint
      new == adjoint_expr_map_'[ProjectedVar]
  IN  /\ IsTuple(new)
      /\ Len(new.args) = Len(old.args)
      /\ new.args[ProjectedPos] =
           IF IsTuple(adjoint_expr)
             THEN Addition(old.args[ProjectedPos], adjoint_expr, adjoint_expr_to_var_')
             ELSE Call("relax.add", <<old.args[ProjectedPos], Var(adjoint_var)>>)
      /\ \A i \in 1..Len(old.args) : i # ProjectedPos => new.args[i] = old.args[i]
      /\ SubSeq(out', 1, Len(out)) = out

(***************************************************************************)
(* C26, as stated: a visit of a relevant binding V = x[k] changes          *)
(* adjoint_expr_map_[x] at position k only, and the entry of every         *)
(* variable other than x is what it was before the visit.                  *)
(***************************************************************************)
C26_OnlyTupleEntryChanges ==
  [][TupleGetItemStep =>
       /\ OnlyPositionK
       /\ \A v \in (DOMAIN adjoint_expr_map_ \cup DOMAIN adjoint_expr_map_') \ {ProjectedVar} :
            /\ v \in DOMAIN adjoint_expr_map_
            /\ v \in DOMAIN adjoint_expr_map_'
            /\ adjoint_expr_map_'[v] = adjoint_expr_map_[v]]_vars

(***************************************************************************)
(* C26, amended: a visit of a relevant binding V = x[k] changes            *)
(* adjoint_expr_map_[x] at position k only; the entry of every variable    *)
(* other than x is what it was before the visit, except that the entry of  *)
(* V is created, with the value ones, when V is the target.                *)
(***************************************************************************)
C26_OnlyPositionKChanges ==
  [][TupleGetItemStep =>
       /\ OnlyPositionK
       /\ \A v \in DOMAIN adjoint_expr_map_ \ {ProjectedVar} :
            v \in DOMAIN adjoint_expr_map_' /\ adjoint_expr_map_'[v] = adjoint_expr_map_[v]
       /\ \A v \in DOMAIN adjoint_expr_map_' \ (DOMAIN adjoint_expr_map_ \cup {ProjectedVar}) :
            /\ v = Cur.var
            /\ v = target
            /\ adjoint_expr_map_'[v] = Call("relax.ones", <<ShapeExpr(func.sinfo[v].shape)>>)]_vars

\* a projection of a tuple of three fields whose adjoint expr exists has
\* been visited: the adjoint expr holds an addition at one position and a
\* zero at another
C26_Witness ==
  /\ pc = "walk"
  /\ cursor < Len(func.body)
  /\ IsTupleGetItem(func.body[cursor + 1].value)
  /\ func.body[cursor + 1].var \in DOMAIN adjoint_expr_map_
  /\ LET x == func.body[cursor + 1].value.args[1].name
         k == func.body[cursor + 1].value.index + 1
     IN  /\ x \in DOMAIN adjoint_expr_map_
         /\ IsTuple(adjoint_expr_map_[x])
         /\ Len(adjoint_expr_map_[x].args) = 3
         /\ IsCall(adjoint_expr_map_[x].args[k])
         /\ adjoint_expr_map_[x].args[k].name = "relax.add"
         /\ \E i \in 1..3 : i # k /\ adjoint_expr_map_[x].args[i].name = "relax.zeros"

(***************************************************************************)
(* shape_lower.cc: ShapeLowerMutator.                                      *)
(*                                                                         *)
(* A dimension (PrimExpr) is [kind, name, vars]: vars are the tir Vars     *)
(* that occur in it.  A key of expr2slot_ is one PrimExpr object; equal    *)
(* records stand for the same object.  A relax expression is a Var or a    *)
(* ShapeExpr, [kind, name, values]; a binding is a MatchShape or a         *)
(* VarBinding, [kind, var, value, pattern]; a function is [seq, bindings,  *)
(* body], seq telling whether its body is a SeqExpr (of one binding        *)
(* block).                                                                 *)
(***************************************************************************)
TirVar(n) == [kind |-> "Var", name |-> n, vars |-> {n}]

\* the dimension n + 1
TirAdd(n) == [kind |-> "Add", name |-> n, vars |-> {n}]

NoExpr == [kind |-> "", name |-> "", values |-> <<>>]

RelaxVar(n) == [kind |-> "Var", name |-> n, values |-> <<>>]

ShapeValues(values) == [kind |-> "ShapeExpr", name |-> "", values |-> values]

MatchShape(value, pattern) ==
  [kind |-> "MatchShape", var |-> "", value |-> value, pattern |-> pattern]

ShapeVarBinding(v, e) == [kind |-> "VarBinding", var |-> v, value |-> e, pattern |-> <<>>]

\* the shapes of the input functions
Shapes ==
  {<<>>,
   <<TirVar("n")>>,
   <<TirVar("n"), TirVar("m")>>,
   <<TirVar("n"), TirVar("n")>>,
   <<TirAdd("n")>>,
   <<TirVar("m"), TirAdd("n")>>}

ShapeBindings ==
  {MatchShape(RelaxVar("x"), pattern) : pattern \in Shapes}
    \cup {ShapeVarBinding("lv", ShapeValues(values)) : values \in Shapes}
    \cup {ShapeVarBinding("lv", RelaxVar("x"))}

ShapeBodies == {RelaxVar("x")} \cup {ShapeValues(values) : values \in Shapes}

ShapeFunctions ==
  [seq : {TRUE},
   bindings : UNION {[1..n -> ShapeBindings] : n \in 0..MaxShapeBindings},
   body : ShapeBodies]
    \cup [seq : {FALSE}, bindings : {<<>>}, body : ShapeBodies]

\* the emitted bindings
Alloc(heap_size) ==
  [var |-> "shape_heap", op |-> "relax.alloc_shape_heap", shape |-> <<heap_size>>, func |-> 0]

Free == [var |-> "_", op |-> "relax.free_shape_heap", shape |-> <<>>, func |-> 0]

DecodeShape(indices) == [var |-> "_", op |-> "decode_shape", shape |-> indices, func |-> 0]

ShapeFuncCall(k) == [var |-> "_", op |-> "shape_func", shape |-> <<>>, func |-> k]

ConstructShape(indices) ==
  [var |-> "sh", op |-> "construct_shape", shape |-> indices, func |-> 0]

\* a VarBinding of the input, emitted with its visited value
Rebound(v) == [var |-> v, op |-> "", shape |-> <<>>, func |-> 0]

\* the dimensions of the ShapeExprs the post-order visit of the bindings
\* i, i+1, ... meets, in the order of the visit
RECURSIVE VisitedDimsFrom(_, _, _)
VisitedDimsFrom(bindings, pattern_visited, i) ==
  IF i > Len(bindings) THEN <<>>
  ELSE (IF bindings[i].kind = "MatchShape"
          THEN (IF pattern_visited THEN bindings[i].pattern ELSE <<>>)
          ELSE bindings[i].value.values)
       \o VisitedDimsFrom(bindings, pattern_visited, i + 1)

VisitedDims(f, v) == VisitedDimsFrom(f.bindings, v.pattern, 1) \o f.body.values

\* a numbering that counts the repeated dimensions too
RECURSIVE SetSlotsCountAll(_, _, _, _)
SetSlotsCountAll(ret, cnt, dims, i) ==
  IF i > Len(dims) THEN ret
  ELSE IF dims[i] \in DOMAIN ret THEN SetSlotsCountAll(ret, cnt + 1, dims, i + 1)
  ELSE SetSlotsCountAll(MapSet(ret, dims[i], cnt), cnt + 1, dims, i + 1)

\* the loop of PrepareExpr2Slot over the dimensions i, i+1, ...
RECURSIVE SetSlots(_, _, _, _)
SetSlots(ret, cnt, dims, i) ==
  IF i > Len(dims) THEN ret
  ELSE IF dims[i] \in DOMAIN ret THEN SetSlots(ret, cnt, dims, i + 1)
  ELSE SetSlots(MapSet(ret, dims[i], cnt), cnt + 1, dims, i + 1)

PrepareExpr2Slot(f, v) == SetSlots(EmptyMap, 0, VisitedDims(f, v), 1)

\* expr2slot_.at(e) does not throw
HasSlot(slot, e) == e \in DOMAIN slot

\* the loads of the tir Vars of a dimension: the slots they are read from
BuildVarMapping(slot, e) == {slot[TirVar(n)] : n \in e.vars}

\* the PrimFunc of a ShapeExpr: for each dimension the slot it is stored to
\* and the slots its value is loaded from
CalculateShape(slot, values) ==
  [i \in 1..Len(values) |-> [store |-> slot[values[i]],
                             loads |-> BuildVarMapping(slot, values[i])]]

\* CalculateShape does not throw
CanCalculateShape(slot, values) ==
  \A i \in 1..Len(values) :
    /\ \A n \in values[i].vars : HasSlot(slot, TirVar(n))
    /\ HasSlot(slot, values[i])

\* the state of the mutator: whether no exception was thrown, the bindings
\* emitted to the current block, and the PrimFuncs added to ret_mod_
Builder == [ok |-> TRUE, emitted |-> <<>>, shape_funcs |-> <<>>]

Emit(st, binding) == [st EXCEPT !.emitted = Append(@, binding)]

VisitMatchShape(st, slot, binding) ==
  IF ~st.ok THEN st
  ELSE IF \A i \in 1..Len(binding.pattern) : HasSlot(slot, binding.pattern[i])
    THEN Emit(st, DecodeShape([i \in 1..Len(binding.pattern) |-> slot[binding.pattern[i]]]))
    ELSE [st EXCEPT !.ok = FALSE]

\* VisitExpr_ for a ShapeExprNode
VisitShapeExpr(st, slot, values) ==
  IF ~st.ok THEN st
  ELSE IF CanCalculateShape(slot, values)
    THEN Emit(Emit([st EXCEPT !.shape_funcs = Append(@, CalculateShape(slot, values))],
                   ShapeFuncCall(Len(st.shape_funcs) + 1)),
              ConstructShape([i \in 1..Len(values) |-> slot[values[i]]]))
    ELSE [st EXCEPT !.ok = FALSE]

\* the visit of a relax expression: a ShapeExpr becomes the var sh
VisitShapeOrVar(st, slot, e) ==
  IF e.kind = "ShapeExpr" THEN VisitShapeExpr(st, slot, e.values) ELSE st

Visited(e) == IF e.kind = "ShapeExpr" THEN RelaxVar("sh") ELSE e

\* the visit of the bindings i, i+1, ... of a binding block
RECURSIVE VisitBindings(_, _, _, _)
VisitBindings(st, slot, bindings, i) ==
  IF i > Len(bindings) \/ ~st.ok THEN st
  ELSE VisitBindings(
         IF bindings[i].kind = "MatchShape"
           THEN VisitMatchShape(st, slot, bindings[i])
           ELSE LET st1 == VisitShapeOrVar(st, slot, bindings[i].value)
                IN  IF st1.ok THEN Emit(st1, Rebound(bindings[i].var)) ELSE st1,
         slot, bindings, i + 1)

NonEmpty(block) == IF block = <<>> THEN <<>> ELSE <<block>>

\* an end of the function that frees the heap in the block that allocates it
BlocksFreeEarly(outer, seq_blocks, is_seq) ==
  IF is_seq THEN <<Append(outer, Free)>> \o seq_blocks
  ELSE <<Append(outer, Free)>>

\* the blocks of the new body: outer is the block opened for the allocation
Blocks(outer, seq_blocks, is_seq) ==
  IF is_seq THEN <<outer>> \o seq_blocks \o <<<<Free>>>>
  ELSE <<Append(outer, Free)>>

Thrown == [status |-> "thrown", blocks |-> <<>>, body |-> NoExpr, shape_funcs |-> <<>>]

\* VisitExpr_ for a FunctionNode.  The visit of a SeqExpr emits what the
\* bindings of its block and what its body emit either to blocks of its own
\* or to the block that is open.
VisitFunction(f, slot, heap_size, v) ==
  LET in_block == VisitBindings(Builder, slot, f.bindings, 1)
      in_body == VisitShapeOrVar([in_block EXCEPT !.emitted = <<>>], slot, f.body)
      outer == IF f.seq /\ v.own_block THEN <<Alloc(heap_size)>>
               ELSE <<Alloc(heap_size)>> \o in_block.emitted \o in_body.emitted
      seq_blocks == IF v.own_block
                      THEN NonEmpty(in_block.emitted) \o NonEmpty(in_body.emitted)
                      ELSE <<>>
  IN  IF in_body.ok
        THEN [status |-> "returned",
              blocks |-> Blocks(outer, seq_blocks, f.seq),
              body |-> Visited(f.body),
              shape_funcs |-> in_body.shape_funcs]
        ELSE Thrown

InitShapeLower ==
  /\ mod_ \in ShapeFunctions
  /\ visitor \in [pattern : BOOLEAN, own_block : BOOLEAN]
  /\ expr2slot_ = EmptyMap
  /\ heap_size_ = 0
  /\ ret_mod_ = NotLowered
  /\ GradientIdle
  /\ OpIdle
  /\ LegalizeIdle

Lower ==
  /\ ret_mod_.status = "none"
  /\ expr2slot_' = PrepareExpr2Slot(mod_, visitor)
  /\ heap_size_' = Cardinality(DOMAIN expr2slot_')
  /\ ret_mod_' = VisitFunction(mod_, expr2slot_', heap_size_', visitor)
  /\ UNCHANGED <<gradient_vars, op_vars, legalize_vars, mod_, visitor>>

NextShapeLower == Lower

SpecShapeLower == InitShapeLower /\ [][NextShapeLower]_vars

\* the bindings of a sequence of blocks, in order
RECURSIVE Flatten(_)
Flatten(blocks) == IF blocks = <<>> THEN <<>> ELSE Head(blocks) \o Flatten(Tail(blocks))

NewBindings == Flatten(ret_mod_.blocks)

\* the slots the new function and its shape functions read or write
UsedSlots ==
  UNION {{NewBindings[i].shape[j] : j \in 1..Len(NewBindings[i].shape)} :
           i \in {k \in 1..Len(NewBindings) :
                    NewBindings[k].op \in {"decode_shape", "construct_shape"}}}
    \cup UNION {UNION {{ret_mod_.shape_funcs[i][j].store} \cup ret_mod_.shape_funcs[i][j].loads :
                         j \in 1..Len(ret_mod_.shape_funcs[i])} :
                  i \in 1..Len(ret_mod_.shape_funcs)}

(***************************************************************************)
(* C27: PrepareExpr2Slot gives every distinct dimension of the ShapeExprs  *)
(* of a function one slot: the slots are pairwise distinct, are exactly    *)
(* 0 .. n-1 for n distinct dimensions, are numbered by first occurrence,   *)
(* and the heap size is n, so that every slot a load, a store, a           *)
(* decode_shape or a construct_shape uses is smaller than the heap size.   *)
(***************************************************************************)
C27_OneSlotPerDimension ==
  ret_mod_.status # "none" =>
    LET dims == VisitedDims(mod_, visitor)
        distinct == {dims[i] : i \in 1..Len(dims)}
        n == Cardinality(distinct)
        FirstAt(e) == CHOOSE i \in 1..Len(dims) :
                        dims[i] = e /\ \A j \in 1..(i - 1) : dims[j] # e
    IN  /\ DOMAIN expr2slot_ = distinct
        /\ \A e, f \in distinct : e # f => expr2slot_[e] # expr2slot_[f]
        /\ {expr2slot_[e] : e \in distinct} = 0..(n - 1)
        /\ \A e \in distinct :
             expr2slot_[e] = Cardinality({dims[j] : j \in 1..(FirstAt(e) - 1)})
        /\ heap_size_ = n
        /\ \A slot \in UsedSlots : slot \in 0..(heap_size_ - 1)

\* a function with a repeated dimension and three distinct ones was lowered:
\* its shape function loads n to store n + 1, and a shape is decoded
C27_Witness ==
  /\ ret_mod_.status = "returned"
  /\ Len(VisitedDims(mod_, visitor)) > heap_size_
  /\ heap_size_ = 3
  /\ \E i \in 1..Len(ret_mod_.shape_funcs) : \E j \in 1..Len(ret_mod_.shape_funcs[i]) :
       ret_mod_.shape_funcs[i][j].loads # {ret_mod_.shape_funcs[i][j].store}
  /\ \E i \in 1..Len(NewBindings) : NewBindings[i].op = "decode_shape"

\* the bindings that read or write the shape heap
HeapUsers == {"decode_shape", "shape_func", "construct_shape"}

(***************************************************************************)
(* C28: in the function ShapeLowerMutator returns, the binding of          *)
(* relax.alloc_shape_heap is the first binding of the new body and the     *)
(* call of relax.free_shape_heap the last, there is no other of either,    *)
(* and every shape function call, decode_shape and construct_shape lies    *)
(* between the two, whether the mutated body is a SeqExpr or not.          *)
(***************************************************************************)
C28_AllocFirstFreeLast ==
  ret_mod_.status = "returned" =>
    /\ Len(NewBindings) >= 2
    /\ NewBindings[1] = Alloc(heap_size_)
    /\ NewBindings[Len(NewBindings)] = Free
    /\ \A i \in 2..(Len(NewBindings) - 1) :
         NewBindings[i].op \notin {"relax.alloc_shape_heap", "relax.free_shape_heap"}
    /\ \A i \in 1..Len(NewBindings) :
         NewBindings[i].op \in HeapUsers => 1 < i /\ i < Len(NewBindings)
    /\ \A b \in 1..Len(ret_mod_.blocks) : ret_mod_.blocks[b] # <<>>

\* a function whose body is a SeqExpr was lowered to four blocks: a shape is
\* decoded and a shape is constructed between the allocation and the free
C28_Witness ==
  /\ ret_mod_.status = "returned"
  /\ mod_.seq
  /\ Len(ret_mod_.blocks) = 4
  /\ \E i \in 1..Len(NewBindings) : NewBindings[i].op = "decode_shape"
  /\ \E i \in 1..Len(NewBindings) : NewBindings[i].op = "construct_shape"

====
